---- MODULE Spec2Model ----
(***************************************************************************)
(* Key Manager of the Thread stack (key_manager.cpp): the network key,     *)
(* the key sequence, the derived MLE / MAC / TREL keys, the frame          *)
(* counters and the key rotation state machine, over the two key storage   *)
(* backends (literal keys, secure-element key references).                 *)
(*                                                                         *)
(* Build modelled: OPENTHREAD_FTD, the IEEE 802.15.4 link and the TREL     *)
(* link both enabled; OPENTHREAD_CONFIG_PLATFORM_KEY_REFERENCES_ENABLE is  *)
(* the variable keyRefs, fixed at construction.                            *)
(*                                                                         *)
(* A uint32_t key sequence is held as the two's-complement integer with    *)
(* the same 32 bits, so -1 stands for 0xFFFFFFFF and Inc32/Dec32 wrap as   *)
(* the unsigned arithmetic of the code does.                               *)
(***************************************************************************)
EXTENDS Integers, Sequences, FiniteSets, TLC

VARIABLES
    keyRefs,                 \* OPENTHREAD_CONFIG_PLATFORM_KEY_REFERENCES_ENABLE
    mNetworkKey,             \* NetworkKeyInfo: mLiteralKey, mKeyRef, mCryptoType
    mKeySequence,            \* uint32_t
    mMleKey,                 \* Mle::Key (key material: mKey / mKeyRef)
    mTrelKey,                \* Mac::Key
    mTemporaryMleKey,        \* Mle::Key handed out by GetTemporaryMleKey
    mTemporaryTrelKey,       \* Mac::Key handed out by GetTemporaryTrelMacKey
    mKek,                    \* Kek (key material: mKey / mKeyRef)
    mKekFrameCounter,
    mPskc,                   \* PskcInfo: mLiteralKey, mKeyRef, mCryptoType
    mIsPskcSet,
    subMac,                  \* the keys installed in Mac::SubMac
    mMacFrameCounters,       \* Mac::LinkFrameCounters of the Key Manager
    mMleFrameCounter,
    mStoredMacFrameCounter,  \* uint32_t: the MAC frame counter threshold
    mStoredMleFrameCounter,  \* uint32_t: the MLE frame counter threshold
    mHoursSinceKeyRotation,
    mKeySwitchGuardTime,
    mKeySwitchGuardEnabled,
    mKeyRotationTimer,       \* TRUE while the rotation timer is running
    mSecurityPolicy,
    mSignaledEvents,         \* Notifier: the events signalled so far
    neighbors,               \* parent, router and child table entries
    keyStore,                \* the secure element: key id -> stored key
    fault,                   \* an OT_ASSERT failed: the process has aborted
    op,                      \* history: the last operation, its argument and outcome
    emitted,                 \* history: the events the last operation signalled
    firesSinceStep,          \* history: timer firings since the last accepted
                             \* single-step advance (-1: none since Start/Stop)
    countersHeld,            \* history: the values each frame counter has held
                             \* since the key sequence or network key last changed
    firingsSinceStarted      \* history: timer firings since the rotation timer was
                             \* last started afresh

vars == <<mTemporaryMleKey, mTemporaryTrelKey, mKek, mKekFrameCounter, mPskc, mIsPskcSet,
          mStoredMacFrameCounter, mStoredMleFrameCounter, keyRefs, mNetworkKey, mKeySequence, mMleKey, mTrelKey, subMac,
          mMacFrameCounters, mMleFrameCounter, mHoursSinceKeyRotation,
          mKeySwitchGuardTime, mKeySwitchGuardEnabled, mKeyRotationTimer,
          mSecurityPolicy, mSignaledEvents, neighbors, keyStore, fault,
          op, emitted, firesSinceStep, countersHeld, firingsSinceStarted>>

\* Everything but the history variables.
kmVars == <<mTemporaryMleKey, mTemporaryTrelKey, mKek, mKekFrameCounter, mPskc, mIsPskcSet,
            mStoredMacFrameCounter, mStoredMleFrameCounter, keyRefs, mNetworkKey, mKeySequence, mMleKey, mTrelKey, subMac,
            mMacFrameCounters, mMleFrameCounter, mHoursSinceKeyRotation,
            mKeySwitchGuardTime, mKeySwitchGuardEnabled, mKeyRotationTimer,
            mSecurityPolicy, mSignaledEvents, neighbors, keyStore, fault>>

\* The keys cached for a key sequence other than the current one.
tempKeys == <<mTemporaryMleKey, mTemporaryTrelKey>>

\* The KEK with its frame counter, and the PSKc.
commissioningKeys == <<mKek, mKekFrameCounter, mPskc, mIsPskcSet>>

\* The frame counter thresholds: the values the counters are stored ahead to.
storedCounters == <<mStoredMacFrameCounter, mStoredMleFrameCounter>>

----------------------------------------------------------------------------
\* Bounds of the model.

\* Largest key sequence the model lets the Key Manager hold (besides 0xFFFFFFFF).
MaxSeq == 2

\* Network keys are 0 (the all-zero key) .. MaxKey.
MaxKey == 1

\* Key switch guard times are 0 .. MaxGuardTime hours.
MaxGuardTime == 2

\* Rotation times are up to MaxRotationTime hours.
MaxRotationTime == 2

\* Frame counters are counted up to MaxFrameCounter.
MaxFrameCounter == 1

\* Security policy flags are encoded in 1 .. MaxFlagsLength bytes.
MaxFlagsLength == 2

\* Volatile key slots of the secure element.
MaxVolatileKeys == 8

----------------------------------------------------------------------------
\* Program constants.

\* SecurityPolicy::kMinKeyRotationTime (hours).
kMinKeyRotationTime == 1

\* KeyManager::kNetworkKeyPsaItsOffset: the persistent key id of the network key.
kNetworkKeyPsaItsOffset == 1

\* A second persistent key id, holding a network key the application imported
\* itself and hands to SetNetworkKeyRef.
kApplicationKeyRef == 2

\* KeyManager::kPskcPsaItsOffset: the persistent key id of the PSKc.
kPskcPsaItsOffset == 3

\* 32-bit unsigned increment and decrement on the two's-complement encoding.
Inc32(s) == IF s = 2147483647 THEN -2147483647 - 1 ELSE s + 1

Dec32(s) == IF s = -2147483647 - 1 THEN 2147483647 ELSE s - 1

\* a < b as uint32_t values.
ULess32(a, b) == IF (a < 0) = (b < 0) THEN a < b ELSE b < 0

SeqDomain == {-1} \cup (0 .. MaxSeq)

NetworkKeys == 0 .. MaxKey

EventNetworkKeyChanged == "NetworkKeyChanged"

EventThreadKeySeqCounterChanged == "ThreadKeySeqCounterChanged"

EventSecurityPolicyChanged == "SecurityPolicyChanged"

EventPskcChanged == "PskcChanged"

\* KEKs and PSKcs are 0 (all bytes zero) .. MaxKey.
Keks == 0 .. MaxKey

Pskcs == 0 .. MaxKey

----------------------------------------------------------------------------
\* Key material and derivation.

\* The bytes of a 16-byte network key, named by a small number (0: all zero).
NetworkKeyBytes(k) == [net |-> k]

\* The bytes of a KEK and of a PSKc.
KekBytes(k) == [kek |-> k]

PskcBytes(p) == [pskc |-> p]

\* A cleared key (Clearable::Clear: all bytes zero).
ClearedKey == [cleared |-> TRUE]

\* Mac::Key / Mle::Key: literal bytes and key reference.
KeyMaterial(key, ref) == [mKey |-> key, mKeyRef |-> ref]

\* The four bytes of a uint32_t, least significant byte first.
LittleEndianWriteUint32(s) ==
    << s % 256, (s \div 256) % 256, (s \div 65536) % 256, (s \div 16777216) % 256 >>

\* Encoding::BigEndian::WriteUint32.
BigEndianWriteUint32(s) ==
    << (s \div 16777216) % 256, (s \div 65536) % 256, (s \div 256) % 256, s % 256 >>

kThreadString == <<84, 104, 114, 101, 97, 100>>

kHkdfExtractSaltString ==
    <<84, 104, 114, 101, 97, 100, 83, 101, 113, 117, 101, 110,
      99, 101, 77, 97, 115, 116, 101, 114, 75, 101, 121>>

kTrelInfoString ==
    <<84, 104, 114, 101, 97, 100, 79, 118, 101, 114, 73, 110, 102, 114, 97, 75, 101, 121>>

\* HMAC-SHA256 as a symbolic 32-byte digest of (key, message).
HmacSha256(key, msg) == [hmacKey |-> key, hmacMsg |-> msg]

\* The key a crypto operation runs with: the literal network key, or the key
\* the secure element holds under mNetworkKey.mKeyRef.
NetworkKeyMaterial(useRefs, nk, store) ==
    IF useRefs
    THEN IF nk.mKeyRef \in DOMAIN store THEN store[nk.mKeyRef].key ELSE ClearedKey
    ELSE NetworkKeyBytes(nk.mLiteralKey)

\* HashKeys::GetMleKey and HashKeys::GetMacKey: the halves of the 32-byte
\* digest mHash.
HashKeysGetMleKey(hash) == [bytes |-> "0..15", of |-> hash]

HashKeysGetMacKey(hash) == [bytes |-> "16..31", of |-> hash]

\* A derivation that reads the current key sequence instead of its argument.
ComputeKeysOfCurrentSequence(aKeySequence, useRefs, nk, store) ==
    LET hash == HmacSha256(NetworkKeyMaterial(useRefs, nk, store),
                           BigEndianWriteUint32(mKeySequence) \o kThreadString)
    IN [mMleKey |-> HashKeysGetMleKey(hash), mMacKey |-> HashKeysGetMacKey(hash)]

\* HashKeys: the digest split in two 16-byte halves, MLE key first.
ComputeKeys(aKeySequence, useRefs, nk, store) ==
    LET hash == HmacSha256(NetworkKeyMaterial(useRefs, nk, store),
                           BigEndianWriteUint32(aKeySequence) \o kThreadString)
    IN [mMleKey |-> HashKeysGetMleKey(hash), mMacKey |-> HashKeysGetMacKey(hash)]

\* The network key is there to compute with: the literal, or a reference
\* that names a key of the secure element.
NetworkKeyHeld(useRefs, nk, store) == useRefs => nk.mKeyRef \in DOMAIN store

\* HKDF extract (salt, network key) then expand (info) to 16 bytes.
ComputeTrelKey(aKeySequence, useRefs, nk, store) ==
    [hkdfSalt |-> BigEndianWriteUint32(aKeySequence) \o kHkdfExtractSaltString,
     hkdfKey  |-> NetworkKeyMaterial(useRefs, nk, store),
     hkdfInfo |-> kTrelInfoString]

----------------------------------------------------------------------------
\* The secure element behind the platform crypto interface: a map from key
\* id to the key stored under it.  slot names the import call that made
\* the entry.

VolatileKeyIds == (kPskcPsaItsOffset + 1) .. (kPskcPsaItsOffset + MaxVolatileKeys)

\* The persistent key ids that hold a network key.
NetworkKeyRefs == {kNetworkKeyPsaItsOffset, kApplicationKeyRef}

PersistentKeyIds == NetworkKeyRefs \cup {kPskcPsaItsOffset}

StorePut(store, id, entry) ==
    [i \in DOMAIN store \cup {id} |-> IF i = id THEN entry ELSE store[i]]

StoreRemove(store, id) == [i \in DOMAIN store \ {id} |-> store[i]]

\* otPlatCryptoImportKey: a persistent key is stored under the id the caller
\* passes, a volatile key under an id the platform allocates.  The import
\* fails when the id is taken or no volatile slot is free.
otPlatCryptoImportKey(store, aKeyId, persistent, key, slot) ==
    IF persistent
    THEN IF aKeyId \in DOMAIN store
         THEN [error |-> TRUE, keyRef |-> aKeyId, store |-> store]
         ELSE [error |-> FALSE, keyRef |-> aKeyId,
               store |-> StorePut(store, aKeyId, [key |-> key, slot |-> slot])]
    ELSE LET free == VolatileKeyIds \ DOMAIN store
         IN IF free = {}
            THEN [error |-> TRUE, keyRef |-> aKeyId, store |-> store]
            ELSE LET id == CHOOSE i \in free : \A j \in free : i <= j
                 IN [error |-> FALSE, keyRef |-> id,
                     store |-> StorePut(store, id, [key |-> key, slot |-> slot])]

\* otPlatCryptoDestroyKey (its error, for an id that names no key, is ignored).
otPlatCryptoDestroyKey(store, aKeyId) == StoreRemove(store, aKeyId)

CheckAndDestroyStoredKey(store, aKeyRef) ==
    IF aKeyRef # 0 THEN otPlatCryptoDestroyKey(store, aKeyRef) ELSE store

\* The key a key material stands for: its literal bytes, or what the secure
\* element holds under its reference.
KeyValue(useRefs, km, store) ==
    IF useRefs
    THEN IF km.mKeyRef \in DOMAIN store THEN store[km.mKeyRef].key ELSE ClearedKey
    ELSE km.mKey

----------------------------------------------------------------------------
\* Mac::SubMac::SetMacKey: the three MAC key generations and the key id are
\* installed together; references held for the slots before are destroyed.
SubMacSetMacKey(store, mac, aKeyId, aPrevKey, aCurrKey, aNextKey) ==
    LET s1 == CheckAndDestroyStoredKey(store, mac.mPrevKey.mKeyRef)
        s2 == CheckAndDestroyStoredKey(s1, mac.mCurrKey.mKeyRef)
        s3 == CheckAndDestroyStoredKey(s2, mac.mNextKey.mKeyRef)
    IN [store |-> s3,
        mac   |-> [mKeyId |-> aKeyId, mPrevKey |-> aPrevKey,
                   mCurrKey |-> aCurrKey, mNextKey |-> aNextKey]]

\* A key index cut from the low 8 bits of the key sequence.
MacKeyIdOfLowByte(aKeySequence) == (aKeySequence % 256) + 1

\* The key index of key id mode 1.
MacKeyId(aKeySequence) == (aKeySequence % 128) + 1

----------------------------------------------------------------------------
\* Notifier: Signal, SignalIfFirst and Update on the pair
\* [signaled: events ever signalled, emitted: events this operation signalled].

Signal(n, event) ==
    [signaled |-> n.signaled \cup {event}, emitted |-> n.emitted \cup {event}]

SignalIfFirst(n, event) == IF event \in n.signaled THEN n ELSE Signal(n, event)

\* Notifier::Update(variable, new value, event): kErrorAlready when equal.
NotifierUpdate(n, old, new, event) ==
    IF old = new
    THEN [already |-> TRUE, n |-> SignalIfFirst(n, event)]
    ELSE [already |-> FALSE, n |-> Signal(n, event)]

Notifier0 == [signaled |-> mSignaledEvents, emitted |-> {}]

----------------------------------------------------------------------------
\* KeyManager::UpdateKeyMaterial, key-reference build: the keys derived for
\* aKeySequence are imported and installed.  fault: an OT_ASSERT on an
\* import result failed.
UpdateKeyMaterialRefs(aKeySequence, nk, store, mle, mac, trel) ==
    LET cur   == ComputeKeys(aKeySequence, TRUE, nk, store)
        iCur  == otPlatCryptoImportKey(store, 0, FALSE, cur.mMacKey, "macCurr")
        sMle  == CheckAndDestroyStoredKey(iCur.store, mle.mKeyRef)
        iMle  == otPlatCryptoImportKey(sMle, 0, FALSE, cur.mMleKey, "mle")
        prev  == ComputeKeys(Dec32(aKeySequence), TRUE, nk, iMle.store)
        next  == ComputeKeys(Inc32(aKeySequence), TRUE, nk, iMle.store)
        iPrev == otPlatCryptoImportKey(iMle.store, 0, FALSE, prev.mMacKey, "macPrev")
        iNext == otPlatCryptoImportKey(iPrev.store, 0, FALSE, next.mMacKey, "macNext")
        set   == SubMacSetMacKey(iNext.store, mac, MacKeyId(aKeySequence),
                                 KeyMaterial(ClearedKey, iPrev.keyRef),
                                 KeyMaterial(ClearedKey, iCur.keyRef),
                                 KeyMaterial(ClearedKey, iNext.keyRef))
        tk    == ComputeTrelKey(aKeySequence, TRUE, nk, set.store)
        iTrel == otPlatCryptoImportKey(set.store, 0, FALSE, tk, "trel")
    IN [store |-> iTrel.store,
        mle   |-> [mle EXCEPT !.mKeyRef = iMle.keyRef],
        mac   |-> set.mac,
        trel  |-> KeyMaterial(ClearedKey, iTrel.keyRef),
        fault |-> iCur.error \/ iMle.error \/ iPrev.error \/ iNext.error \/ iTrel.error]

\* KeyManager::UpdateKeyMaterial, literal build.
UpdateKeyMaterialLiterals(aKeySequence, nk, store, mle, mac, trel) ==
    LET cur  == ComputeKeys(aKeySequence, FALSE, nk, store)
        prev == ComputeKeys(Dec32(aKeySequence), FALSE, nk, store)
        next == ComputeKeys(Inc32(aKeySequence), FALSE, nk, store)
        set  == SubMacSetMacKey(store, mac, MacKeyId(aKeySequence),
                                KeyMaterial(prev.mMacKey, 0),
                                KeyMaterial(cur.mMacKey, 0),
                                KeyMaterial(next.mMacKey, 0))
    IN [store |-> set.store,
        mle   |-> KeyMaterial(cur.mMleKey, 0),
        mac   |-> set.mac,
        trel  |-> KeyMaterial(ComputeTrelKey(aKeySequence, FALSE, nk, store), 0),
        fault |-> FALSE]

UpdateKeyMaterial(aKeySequence, nk, store, mle, mac, trel) ==
    IF keyRefs
    THEN UpdateKeyMaterialRefs(aKeySequence, nk, store, mle, mac, trel)
    ELSE UpdateKeyMaterialLiterals(aKeySequence, nk, store, mle, mac, trel)

----------------------------------------------------------------------------
\* Neighbor entries whose key sequence and frame counters the Key Manager
\* resets: the parent, the router table and the child table.

NeighborIds == {"parent", "router", "child", "invalidChild"}

\* Where the entry lives: the parent, the router table, the child table.
NeighborKind(n) ==
    IF n = "parent" THEN "parent" ELSE IF n = "router" THEN "router" ELSE "child"

\* Neighbor::GetState (the child table holds one entry in state invalid).
NeighborState(n) == IF n = "invalidChild" THEN "invalid" ELSE "valid"

\* SetKeySequence(0), ResetLinkFrameCounters(), SetLinkAckFrameCounter(0),
\* SetMleFrameCounter(0).
NeighborZero ==
    [mKeySequence |-> 0, mLinkFrameCounters |-> 0,
     mLinkAckFrameCounter |-> 0, mMleFrameCounter |-> 0]

NeighborInit == [n \in NeighborIds |-> NeighborZero]

\* Whether ResetFrameCounters reaches the entry: the parent, every router of
\* the router table, every child in a state other than invalid.
IsResetByKeyManager(n) ==
    NeighborKind(n) \in {"parent", "router"} \/ NeighborState(n) # "invalid"

\* KeyManager::ResetFrameCounters.
ResetFrameCounters(nbs) ==
    [n \in DOMAIN nbs |-> IF IsResetByKeyManager(n) THEN NeighborZero ELSE nbs[n]]

----------------------------------------------------------------------------
\* Security policy.  A byte is the set of its bits that are 1 (bit 7 is
\* 0x80), & is the intersection and | the union.

Bits == 0 .. 7

\* Byte 0 of the flags.
kObtainNetworkKeyMask == {7}

kNativeCommissioningMask == {6}

kRoutersMask == {5}

kExternalCommissioningMask == {4}

kBeaconsMask == {3}

kCommercialCommissioningMask == {2}

kAutonomousEnrollmentMask == {1}

kNetworkKeyProvisioningMask == {0}

\* Byte 1 of the flags.
kTobleLinkMask == {7}

kNonCcmRoutersMask == {6}

kReservedMask == {5, 4}

kVersionThresholdForRoutingMask == {3, 2, 1, 0}

\* The conversion of a masked byte to bool.
ToBool(byte) == byte # {}

\* SecurityPolicy::SetToDefaultFlags.
SetToDefaultFlags(policy) ==
    [policy EXCEPT !.mObtainNetworkKeyEnabled        = TRUE,
                   !.mNativeCommissioningEnabled     = TRUE,
                   !.mRoutersEnabled                 = TRUE,
                   !.mExternalCommissioningEnabled   = TRUE,
                   !.mBeaconsEnabled                 = TRUE,
                   !.mCommercialCommissioningEnabled = FALSE,
                   !.mAutonomousEnrollmentEnabled    = FALSE,
                   !.mNetworkKeyProvisioningEnabled  = FALSE,
                   !.mTobleLinkEnabled               = TRUE,
                   !.mNonCcmRoutersEnabled           = FALSE,
                   !.mVersionThresholdForRouting     = {}]

\* SecurityPolicy::SetToDefault; the rotation time of the model is
\* MaxRotationTime.
DefaultPolicy ==
    SetToDefaultFlags([mRotationTime                   |-> MaxRotationTime,
                       mObtainNetworkKeyEnabled        |-> FALSE,
                       mNativeCommissioningEnabled     |-> FALSE,
                       mRoutersEnabled                 |-> FALSE,
                       mExternalCommissioningEnabled   |-> FALSE,
                       mBeaconsEnabled                 |-> FALSE,
                       mCommercialCommissioningEnabled |-> FALSE,
                       mAutonomousEnrollmentEnabled    |-> FALSE,
                       mNetworkKeyProvisioningEnabled  |-> FALSE,
                       mTobleLinkEnabled               |-> FALSE,
                       mNonCcmRoutersEnabled           |-> FALSE,
                       mVersionThresholdForRouting     |-> {}])

\* SecurityPolicy::SetFlags: aFlags is the sequence of the bytes.
SetFlags(policy, aFlags, aFlagsLength) ==
    LET d  == SetToDefaultFlags(policy)
        p0 == [d EXCEPT
                 !.mObtainNetworkKeyEnabled        = ToBool(aFlags[1] \cap kObtainNetworkKeyMask),
                 !.mNativeCommissioningEnabled     = ToBool(aFlags[1] \cap kNativeCommissioningMask),
                 !.mRoutersEnabled                 = ToBool(aFlags[1] \cap kRoutersMask),
                 !.mExternalCommissioningEnabled   = ToBool(aFlags[1] \cap kExternalCommissioningMask),
                 !.mBeaconsEnabled                 = ToBool(aFlags[1] \cap kBeaconsMask),
                 !.mCommercialCommissioningEnabled = (aFlags[1] \cap kCommercialCommissioningMask) = {},
                 !.mAutonomousEnrollmentEnabled    = (aFlags[1] \cap kAutonomousEnrollmentMask) = {},
                 !.mNetworkKeyProvisioningEnabled  = (aFlags[1] \cap kNetworkKeyProvisioningMask) = {}]
    IN IF aFlagsLength > 1
       THEN [p0 EXCEPT
               !.mTobleLinkEnabled           = ToBool(aFlags[2] \cap kTobleLinkMask),
               !.mNonCcmRoutersEnabled       = (aFlags[2] \cap kNonCcmRoutersMask) = {},
               !.mVersionThresholdForRouting = aFlags[2] \cap kVersionThresholdForRoutingMask]
       ELSE p0

\* GetFlags with the inversion of the commercial commissioning bit left out.
GetFlagsCommercialNotInverted(policy, aFlagsLength) ==
    [i \in 1 .. aFlagsLength |->
        IF i = 1 THEN IF policy.mCommercialCommissioningEnabled
                      THEN kCommercialCommissioningMask ELSE {}
        ELSE {}]

\* SecurityPolicy::GetFlags: the sequence of the aFlagsLength bytes written.
GetFlags(policy, aFlagsLength) ==
    LET b0 == UNION {IF policy.mObtainNetworkKeyEnabled THEN kObtainNetworkKeyMask ELSE {},
                     IF policy.mNativeCommissioningEnabled THEN kNativeCommissioningMask ELSE {},
                     IF policy.mRoutersEnabled THEN kRoutersMask ELSE {},
                     IF policy.mExternalCommissioningEnabled
                     THEN kExternalCommissioningMask ELSE {},
                     IF policy.mBeaconsEnabled THEN kBeaconsMask ELSE {},
                     IF ~policy.mCommercialCommissioningEnabled
                     THEN kCommercialCommissioningMask ELSE {},
                     IF ~policy.mAutonomousEnrollmentEnabled
                     THEN kAutonomousEnrollmentMask ELSE {},
                     IF ~policy.mNetworkKeyProvisioningEnabled
                     THEN kNetworkKeyProvisioningMask ELSE {}}
        b1 == UNION {IF policy.mTobleLinkEnabled THEN kTobleLinkMask ELSE {},
                     IF ~policy.mNonCcmRoutersEnabled THEN kNonCcmRoutersMask ELSE {},
                     kReservedMask,
                     policy.mVersionThresholdForRouting}
    IN [i \in 1 .. aFlagsLength |-> IF i = 1 THEN b0 ELSE IF i = 2 THEN b1 ELSE {}]

----------------------------------------------------------------------------
\* Construction.

NoKeys == KeyMaterial(ClearedKey, 0)

\* KeyManager::KeyManager.  The network key is random; in the key-reference
\* build StoreNetworkKey(false) leaves it in the persistent slot (kept when
\* a key was already stored there) and clears the literal.  refs is the
\* build, guardTimes the key switch guard times the build is configured with.
Constructed(refs, guardTimes, policies) ==
    /\ keyRefs = refs
    /\ \E k \in NetworkKeys :
          IF keyRefs
          THEN /\ mNetworkKey = [mLiteralKey |-> 0, mKeyRef |-> kNetworkKeyPsaItsOffset,
                                 mCryptoType |-> "refs"]
               /\ keyStore = [i \in NetworkKeyRefs |->
                                IF i = kNetworkKeyPsaItsOffset
                                THEN [key |-> NetworkKeyBytes(k), slot |-> "networkKey"]
                                ELSE [key |-> NetworkKeyBytes(MaxKey), slot |-> "application"]]
          ELSE /\ mNetworkKey = [mLiteralKey |-> k, mKeyRef |-> 0, mCryptoType |-> "literals"]
               /\ keyStore = [i \in {} |-> NoKeys]
    /\ mKeySequence = 0
    /\ mMleKey = NoKeys
    /\ mTrelKey = NoKeys
    /\ mTemporaryMleKey = NoKeys
    /\ mTemporaryTrelKey = NoKeys
    /\ mKek = NoKeys
    /\ mKekFrameCounter = 0
    /\ mPskc = [mLiteralKey |-> 0, mKeyRef |-> 0, mCryptoType |-> "literals"]
    /\ mIsPskcSet = FALSE
    /\ subMac = [mKeyId |-> 0, mPrevKey |-> NoKeys, mCurrKey |-> NoKeys, mNextKey |-> NoKeys]
    /\ mMacFrameCounters = [m154 |-> 0, mTrel |-> 0]
    /\ mMleFrameCounter = 0
    /\ mStoredMacFrameCounter = 0
    /\ mStoredMleFrameCounter = 0
    /\ mHoursSinceKeyRotation = 0
    /\ mKeySwitchGuardTime \in guardTimes
    /\ mKeySwitchGuardEnabled = FALSE
    /\ mKeyRotationTimer = FALSE
    /\ mSecurityPolicy \in policies
    /\ mSignaledEvents = {}
    /\ neighbors = NeighborInit
    /\ fault = FALSE
    /\ op = [name |-> "KeyManager", arg |-> 0, result |-> "ok"]
    /\ emitted = {}
    /\ firesSinceStep = -1
    /\ countersHeld = [mle |-> {0}, m154 |-> {0}, mTrel |-> {0}]
    /\ firingsSinceStarted = 0

\* After construction the security policy is the default one.
KeyManager(refs, guardTimes) == Constructed(refs, guardTimes, {DefaultPolicy})

\* The literal build.
Init == KeyManager(FALSE, 0 .. MaxGuardTime)

\* The key-reference build.
InitRefs == KeyManager(TRUE, {MaxGuardTime})

\* The step changed the key sequence or the network key.
GenerationChanged ==
    \/ mKeySequence' # mKeySequence
    \/ op'.name \in {"SetNetworkKey", "SetNetworkKeyRef"} /\ op'.result \notin {"already", "fault"}
    \/ op'.name = "KeyManager"

\* The firings the history counts: the hours counter stays below the larger
\* of rotation time and guard time.
MaxFirings == MaxRotationTime + MaxGuardTime

\* The step started the rotation timer afresh: the Key Manager was
\* constructed or started, or a single step of the key sequence passed the
\* guard check.
StartedAfresh ==
    \/ op'.name \in {"KeyManager", "Start"}
    \/ /\ op'.name \in {"SetCurrentKeySequence", "HandleKeyRotationTimer"}
       /\ op'.result = "stepped"
       /\ mKeySwitchGuardEnabled

\* The history of the frame counters and of the timer firings follows every
\* step.
Recorded ==
    /\ countersHeld' =
        [mle   |-> (IF GenerationChanged THEN {} ELSE countersHeld.mle) \cup {mMleFrameCounter'},
         m154  |-> (IF GenerationChanged THEN {} ELSE countersHeld.m154)
                      \cup {mMacFrameCounters'.m154},
         mTrel |-> (IF GenerationChanged THEN {} ELSE countersHeld.mTrel)
                      \cup {mMacFrameCounters'.mTrel}]
    /\ firingsSinceStarted' =
        IF StartedAfresh THEN 0
        ELSE IF /\ op'.name = "HandleKeyRotationTimer"
                /\ op'.result # "fault"
                /\ firingsSinceStarted < MaxFirings
             THEN firingsSinceStarted + 1
             ELSE firingsSinceStarted

\* A failed OT_ASSERT: the process aborts inside the operation.
Abort(name, arg) ==
    /\ fault' = TRUE
    /\ op' = [name |-> name, arg |-> arg, result |-> "fault"]
    /\ emitted' = {}
    /\ UNCHANGED <<tempKeys, commissioningKeys, storedCounters, keyRefs, mNetworkKey, mKeySequence, mMleKey, mTrelKey, subMac,
                   mMacFrameCounters, mMleFrameCounter, mHoursSinceKeyRotation,
                   mKeySwitchGuardTime, mKeySwitchGuardEnabled, mKeyRotationTimer,
                   mSecurityPolicy, mSignaledEvents, neighbors, keyStore, firesSinceStep>>
    /\ Recorded

----------------------------------------------------------------------------
\* Start, Stop and the rotation state machine.

\* The outcome recorded for Start: whether the timer was running before,
\* and whether the guard was enabled then.
StartOutcome ==
    IF ~mKeyRotationTimer THEN "ok"
    ELSE IF mKeySwitchGuardEnabled THEN "restartedGuarded" ELSE "restarted"

\* A Start that arms the timer and leaves the guard flag as it is.
StartKeepsGuard ==
    /\ ~fault
    /\ mHoursSinceKeyRotation' = 0
    /\ mKeyRotationTimer' = TRUE
    /\ op' = [name |-> "Start", arg |-> 0, result |-> StartOutcome]
    /\ emitted' = {}
    /\ firesSinceStep' = -1
    /\ UNCHANGED <<tempKeys, commissioningKeys, storedCounters, keyRefs, mNetworkKey, mKeySequence, mMleKey, mTrelKey, subMac,
                   mMacFrameCounters, mMleFrameCounter, mKeySwitchGuardTime,
                   mKeySwitchGuardEnabled,
                   mSecurityPolicy, mSignaledEvents, neighbors, keyStore, fault>>
    /\ Recorded

\* KeyManager::Start (StartKeyRotationTimer inlined).
Start ==
    /\ ~fault
    /\ mKeySwitchGuardEnabled' = FALSE
    /\ mHoursSinceKeyRotation' = 0
    /\ mKeyRotationTimer' = TRUE
    /\ op' = [name |-> "Start", arg |-> 0, result |-> StartOutcome]
    /\ emitted' = {}
    /\ firesSinceStep' = -1
    /\ UNCHANGED <<tempKeys, commissioningKeys, storedCounters, keyRefs, mNetworkKey, mKeySequence, mMleKey, mTrelKey, subMac,
                   mMacFrameCounters, mMleFrameCounter, mKeySwitchGuardTime,
                   mSecurityPolicy, mSignaledEvents, neighbors, keyStore, fault>>
    /\ Recorded

\* KeyManager::Stop.
Stop ==
    /\ ~fault
    /\ mKeyRotationTimer' = FALSE
    /\ op' = [name |-> "Stop", arg |-> 0, result |-> "ok"]
    /\ emitted' = {}
    /\ firesSinceStep' = -1
    /\ UNCHANGED <<tempKeys, commissioningKeys, storedCounters, keyRefs, mNetworkKey, mKeySequence, mMleKey, mTrelKey, subMac,
                   mMacFrameCounters, mMleFrameCounter, mHoursSinceKeyRotation,
                   mKeySwitchGuardTime, mKeySwitchGuardEnabled,
                   mSecurityPolicy, mSignaledEvents, neighbors, keyStore, fault>>
    /\ Recorded

\* A test for the current key sequence that never finds it.
IsCurrentKeySequenceNever(aKeySequence) == FALSE

\* VerifyOrExit(aKeySequence != mKeySequence, ...) leaves the call.
IsCurrentKeySequence(aKeySequence) == aKeySequence = mKeySequence

\* Any advance made while the rotation timer runs, a jump as well.
IsAdvanceWhileRunning(aKeySequence) ==
    ULess32(mKeySequence, aKeySequence) /\ mKeyRotationTimer

\* The request is a single step made while the rotation timer runs.
IsSingleStepWhileRunning(aKeySequence) ==
    aKeySequence = Inc32(mKeySequence) /\ mKeyRotationTimer

\* A guard check that lets the step through one hour early.
GuardAbsorbsOneHourEarly(aKeySequence, hours) ==
    /\ IsSingleStepWhileRunning(aKeySequence)
    /\ mKeySwitchGuardEnabled
    /\ ~(hours + 1 >= mKeySwitchGuardTime)

\* The guard check fails: VerifyOrExit(mHoursSinceKeyRotation >= mKeySwitchGuardTime).
GuardAbsorbs(aKeySequence, hours) ==
    /\ IsSingleStepWhileRunning(aKeySequence)
    /\ mKeySwitchGuardEnabled
    /\ ~(hours >= mKeySwitchGuardTime)

\* A restart that does not ask whether the timer is running.
RestartsRotationTimerAlsoStopped(aKeySequence) ==
    aKeySequence = Inc32(mKeySequence) /\ mKeySwitchGuardEnabled

\* StartKeyRotationTimer is called: the step passed the guard check.
RestartsRotationTimer(aKeySequence) ==
    IsSingleStepWhileRunning(aKeySequence) /\ mKeySwitchGuardEnabled

\* A restart of the rotation timer that keeps the hours counted.
HoursAfterSetKept(aKeySequence, hours) == hours

\* mHoursSinceKeyRotation after a call that was not absorbed:
\* StartKeyRotationTimer sets it to 0.
HoursAfterSet(aKeySequence, hours) ==
    IF RestartsRotationTimer(aKeySequence) THEN 0 ELSE hours

\* mKeySwitchGuardEnabled after a call that was not absorbed.
GuardEnabledAfter(aKeySequence) ==
    IF IsSingleStepWhileRunning(aKeySequence) THEN TRUE ELSE mKeySwitchGuardEnabled

\* A reset that forgets the TREL frame counter.
MacFrameCountersResetBut154Only == [mMacFrameCounters EXCEPT !.m154 = 0]

\* mMacFrameCounters.Reset().
MacFrameCountersReset == [m154 |-> 0, mTrel |-> 0]

\* KeyManager::SetCurrentKeySequence, called with mHoursSinceKeyRotation = hours
\* (the timer handler has incremented it before the call); fires is the
\* history counter at the call, name the operation that made the call.
\* An accepted call is recorded as "stepped" when it was a single step made
\* while the timer runs, else as "applied"; restarted tells whether it called
\* StartKeyRotationTimer.
SetCurrentKeySequence(aKeySequence, hours, fires, name) ==
    IF IsCurrentKeySequence(aKeySequence)
    THEN LET n == SignalIfFirst(Notifier0, EventThreadKeySeqCounterChanged)
         IN /\ mSignaledEvents' = n.signaled
            /\ emitted' = n.emitted
            /\ mHoursSinceKeyRotation' = hours
            /\ firesSinceStep' = fires
            /\ op' = [name |-> name, arg |-> aKeySequence, result |-> "redundant"]
            /\ UNCHANGED <<tempKeys, commissioningKeys, storedCounters, keyRefs, mNetworkKey, mKeySequence, mMleKey, mTrelKey, subMac,
                           mMacFrameCounters, mMleFrameCounter, mKeySwitchGuardTime,
                           mKeySwitchGuardEnabled, mKeyRotationTimer, mSecurityPolicy,
                           neighbors, keyStore, fault>>
            /\ Recorded
    ELSE IF GuardAbsorbs(aKeySequence, hours)
    THEN /\ mHoursSinceKeyRotation' = hours
         /\ firesSinceStep' = fires
         /\ emitted' = {}
         /\ op' = [name |-> name, arg |-> aKeySequence, result |-> "absorbed"]
         /\ UNCHANGED <<tempKeys, commissioningKeys, storedCounters, keyRefs, mNetworkKey, mKeySequence, mMleKey, mTrelKey, subMac,
                        mMacFrameCounters, mMleFrameCounter, mKeySwitchGuardTime,
                        mKeySwitchGuardEnabled, mKeyRotationTimer, mSecurityPolicy,
                        mSignaledEvents, neighbors, keyStore, fault>>
         /\ Recorded
    ELSE \E upd \in {UpdateKeyMaterial(aKeySequence, mNetworkKey, keyStore,
                                      mMleKey, subMac, mTrelKey)} :
         LET n   == Signal(Notifier0, EventThreadKeySeqCounterChanged)
         IN IF upd.fault
            THEN Abort(name, aKeySequence)
            ELSE /\ mHoursSinceKeyRotation' = HoursAfterSet(aKeySequence, hours)
                 /\ mKeyRotationTimer' =
                        IF RestartsRotationTimer(aKeySequence) THEN TRUE ELSE mKeyRotationTimer
                 /\ mKeySwitchGuardEnabled' = GuardEnabledAfter(aKeySequence)
                 /\ mKeySequence' = aKeySequence
                 /\ keyStore' = upd.store
                 /\ mMleKey' = upd.mle
                 /\ subMac' = upd.mac
                 /\ mTrelKey' = upd.trel
                 /\ mMacFrameCounters' = MacFrameCountersReset
                 /\ mMleFrameCounter' = 0
                 /\ mSignaledEvents' = n.signaled
                 /\ emitted' = n.emitted
                 /\ firesSinceStep' =
                        IF IsSingleStepWhileRunning(aKeySequence) THEN 0 ELSE fires
                 /\ op' = [name |-> name, arg |-> aKeySequence,
                           result |-> IF IsSingleStepWhileRunning(aKeySequence)
                                      THEN "stepped" ELSE "applied",
                           restarted |-> RestartsRotationTimer(aKeySequence)]
                 /\ UNCHANGED <<tempKeys, commissioningKeys, storedCounters, keyRefs, mNetworkKey, mKeySwitchGuardTime,
                                mSecurityPolicy, neighbors, fault>>
                 /\ Recorded

\* A caller (the MLE layer on a peer's message, the API) sets the key sequence.
SetCurrentKeySequenceCall ==
    /\ ~fault
    /\ \E aKeySequence \in SeqDomain :
          SetCurrentKeySequence(aKeySequence, mHoursSinceKeyRotation, firesSinceStep,
                                "SetCurrentKeySequence")

\* Key sequences around the values where the low 7 bits wrap, up to
\* 0xFFFFFFFF.
KeyIdSeqs == {0, 127, 128, 255, 256, -128, -1}

\* SetCurrentKeySequence is called with a key sequence around a wrap of the
\* low 7 bits.
SetKeySequenceAroundWrapCall ==
    /\ ~fault
    /\ \E aKeySequence \in KeyIdSeqs :
          SetCurrentKeySequence(aKeySequence, mHoursSinceKeyRotation, firesSinceStep,
                                "SetCurrentKeySequence")

\* The MLE layer sets the next key sequence, heard from a peer that has
\* rotated.
SetNextKeySequenceCall ==
    /\ ~fault
    /\ Inc32(mKeySequence) \in 1 .. MaxSeq
    /\ SetCurrentKeySequence(Inc32(mKeySequence), mHoursSinceKeyRotation, firesSinceStep,
                             "SetCurrentKeySequence")

\* A rotation test that waits one hour longer.
RotationDueOneHourLate(hours) == hours > mSecurityPolicy.mRotationTime

\* The rotation is due: mHoursSinceKeyRotation >= mSecurityPolicy.mRotationTime.
RotationDue(hours) == hours >= mSecurityPolicy.mRotationTime

\* An hours counter that a firing counts up by two.
HoursAfterFireTwice(hours) == hours + 2

\* An hours counter that a firing does not count up.
HoursAfterFireStuck(hours) == hours

\* mHoursSinceKeyRotation++ of HandleKeyRotationTimer.
HoursAfterFire(hours) == hours + 1

\* The history counter after one more firing, counted up to the guard time.
FiresAfterTick ==
    IF firesSinceStep >= 0 /\ firesSinceStep < mKeySwitchGuardTime
    THEN firesSinceStep + 1
    ELSE firesSinceStep

\* A handler that calls SetCurrentKeySequence first and restarts the timer
\* after: the call finds the fired timer not running, so it makes no guard
\* check, does not enable the guard and does not reset the hours.
HandleKeyRotationTimerCallsBeforeRestart ==
    /\ ~fault
    /\ mKeyRotationTimer
    /\ Inc32(mKeySequence) \in SeqDomain
    /\ IF RotationDue(HoursAfterFire(mHoursSinceKeyRotation))
       THEN \E upd \in {UpdateKeyMaterial(Inc32(mKeySequence), mNetworkKey, keyStore,
                                          mMleKey, subMac, mTrelKey)} :
            LET n == Signal(Notifier0, EventThreadKeySeqCounterChanged)
            IN IF upd.fault
               THEN Abort("HandleKeyRotationTimer", Inc32(mKeySequence))
               ELSE /\ mHoursSinceKeyRotation' = HoursAfterFire(mHoursSinceKeyRotation)
                    /\ mKeySequence' = Inc32(mKeySequence)
                    /\ keyStore' = upd.store
                    /\ mMleKey' = upd.mle
                    /\ subMac' = upd.mac
                    /\ mTrelKey' = upd.trel
                    /\ mMacFrameCounters' = MacFrameCountersReset
                    /\ mMleFrameCounter' = 0
                    /\ mSignaledEvents' = n.signaled
                    /\ emitted' = n.emitted
                    /\ firesSinceStep' = FiresAfterTick
                    /\ op' = [name |-> "HandleKeyRotationTimer", arg |-> Inc32(mKeySequence),
                              result |-> "applied", restarted |-> FALSE]
                    /\ UNCHANGED <<tempKeys, commissioningKeys, storedCounters, keyRefs, mNetworkKey,
                                   mKeySwitchGuardTime, mKeySwitchGuardEnabled,
                                   mKeyRotationTimer, mSecurityPolicy, neighbors, fault>>
                    /\ Recorded
       ELSE /\ mHoursSinceKeyRotation' = HoursAfterFire(mHoursSinceKeyRotation)
            /\ firesSinceStep' = FiresAfterTick
            /\ emitted' = {}
            /\ op' = [name |-> "HandleKeyRotationTimer", arg |-> mKeySequence,
                      result |-> "tick"]
            /\ UNCHANGED <<tempKeys, commissioningKeys, storedCounters, keyRefs, mNetworkKey, mKeySequence, mMleKey,
                           mTrelKey, subMac, mMacFrameCounters, mMleFrameCounter,
                           mKeySwitchGuardTime, mKeySwitchGuardEnabled, mKeyRotationTimer,
                           mSecurityPolicy, mSignaledEvents, neighbors, keyStore, fault>>
            /\ Recorded

\* KeyManager::HandleKeyRotationTimer: the timer fired.  It is restarted for
\* one hour before SetCurrentKeySequence is called.
HandleKeyRotationTimer ==
    /\ ~fault
    /\ mKeyRotationTimer
    /\ Inc32(mKeySequence) \in SeqDomain
    /\ IF RotationDue(HoursAfterFire(mHoursSinceKeyRotation))
       THEN SetCurrentKeySequence(Inc32(mKeySequence),
                                  HoursAfterFire(mHoursSinceKeyRotation),
                                  FiresAfterTick, "HandleKeyRotationTimer")
       ELSE /\ mHoursSinceKeyRotation' = HoursAfterFire(mHoursSinceKeyRotation)
            /\ firesSinceStep' = FiresAfterTick
            /\ emitted' = {}
            /\ op' = [name |-> "HandleKeyRotationTimer", arg |-> mKeySequence,
                      result |-> "tick"]
            /\ UNCHANGED <<tempKeys, commissioningKeys, storedCounters, keyRefs, mNetworkKey, mKeySequence, mMleKey, mTrelKey, subMac,
                           mMacFrameCounters, mMleFrameCounter, mKeySwitchGuardTime,
                           mKeySwitchGuardEnabled, mKeyRotationTimer, mSecurityPolicy,
                           mSignaledEvents, neighbors, keyStore, fault>>
            /\ Recorded

----------------------------------------------------------------------------
\* The network key.

\* KeyManager::StoreNetworkKey (key-reference build): the literal network key
\* goes to the persistent slot, and the literal is cleared.  With
\* aOverWriteExisting false a key already stored there is kept.
\* importFails: the platform refuses the import (the storage fails).
StoreNetworkKey(aOverWriteExisting, nk, store, importFails) ==
    LET aKeyRef == kNetworkKeyPsaItsOffset
        found   == ~aOverWriteExisting /\ aKeyRef \in DOMAIN store
        s1      == CheckAndDestroyStoredKey(store, aKeyRef)
        imp     == IF importFails
                   THEN [error |-> TRUE, keyRef |-> aKeyRef, store |-> s1]
                   ELSE otPlatCryptoImportKey(s1, aKeyRef, TRUE,
                                              NetworkKeyBytes(nk.mLiteralKey), "networkKey")
    IN [nk    |-> [mLiteralKey |-> 0,
                   mKeyRef |-> IF found THEN aKeyRef ELSE imp.keyRef,
                   mCryptoType |-> "refs"],
        store |-> IF found THEN store ELSE imp.store,
        error |-> IF found THEN FALSE ELSE imp.error]

\* What SetNetworkKey compares the new key with: Notifier::Update is handed
\* mNetworkKey.mLiteralKey.
NetworkKeyCompared(nk) == nk.mLiteralKey

\* KeyManager::SetNetworkKey.  The result of StoreNetworkKey is ignored
\* (IgnoreError).
SetNetworkKey(aKey, importFails) ==
    LET upd0 == NotifierUpdate(Notifier0, NetworkKeyCompared(mNetworkKey), aKey,
                               EventNetworkKeyChanged)
    IN IF upd0.already
       THEN /\ mSignaledEvents' = upd0.n.signaled
            /\ emitted' = upd0.n.emitted
            /\ op' = [name |-> "SetNetworkKey", arg |-> aKey, result |-> "already"]
            /\ UNCHANGED <<tempKeys, commissioningKeys, storedCounters, keyRefs, mNetworkKey, mKeySequence, mMleKey, mTrelKey, subMac,
                           mMacFrameCounters, mMleFrameCounter, mHoursSinceKeyRotation,
                           mKeySwitchGuardTime, mKeySwitchGuardEnabled, mKeyRotationTimer,
                           mSecurityPolicy, neighbors, keyStore, fault, firesSinceStep>>
            /\ Recorded
       ELSE LET n      == Signal(upd0.n, EventThreadKeySeqCounterChanged)
                nk1    == [mNetworkKey EXCEPT !.mLiteralKey = aKey]
                stored == IF keyRefs
                          THEN StoreNetworkKey(TRUE, nk1, keyStore, importFails)
                          ELSE [nk |-> [nk1 EXCEPT !.mCryptoType = "literals"],
                                store |-> keyStore, error |-> FALSE]
            IN \E upd \in {UpdateKeyMaterial(0, stored.nk, stored.store,
                                                mMleKey, subMac, mTrelKey)} :
               IF upd.fault
               THEN Abort("SetNetworkKey", aKey)
               ELSE /\ mNetworkKey' = stored.nk
                    /\ mKeySequence' = 0
                    /\ keyStore' = upd.store
                    /\ mMleKey' = upd.mle
                    /\ subMac' = upd.mac
                    /\ mTrelKey' = upd.trel
                    /\ neighbors' = ResetFrameCounters(neighbors)
                    /\ mSignaledEvents' = n.signaled
                    /\ emitted' = n.emitted
                    /\ op' = [name |-> "SetNetworkKey", arg |-> aKey,
                              result |-> IF stored.error THEN "importFailed" ELSE "applied"]
                    /\ UNCHANGED <<tempKeys, commissioningKeys, storedCounters, keyRefs, mMacFrameCounters, mMleFrameCounter,
                                   mHoursSinceKeyRotation, mKeySwitchGuardTime,
                                   mKeySwitchGuardEnabled, mKeyRotationTimer,
                                   mSecurityPolicy, fault, firesSinceStep>>
                    /\ Recorded

SetNetworkKeyCall ==
    /\ ~fault
    /\ \E aKey \in NetworkKeys :
       \E importFails \in (IF keyRefs THEN BOOLEAN ELSE {FALSE}) :
          SetNetworkKey(aKey, importFails)

\* KeyManager::SetNetworkKeyRef (key-reference build only).
SetNetworkKeyRef(aKeyRef) ==
    IF aKeyRef = mNetworkKey.mKeyRef
    THEN LET n == SignalIfFirst(Notifier0, EventNetworkKeyChanged)
         IN /\ mSignaledEvents' = n.signaled
            /\ emitted' = n.emitted
            /\ op' = [name |-> "SetNetworkKeyRef", arg |-> aKeyRef, result |-> "already"]
            /\ UNCHANGED <<tempKeys, commissioningKeys, storedCounters, keyRefs, mNetworkKey, mKeySequence, mMleKey, mTrelKey, subMac,
                           mMacFrameCounters, mMleFrameCounter, mHoursSinceKeyRotation,
                           mKeySwitchGuardTime, mKeySwitchGuardEnabled, mKeyRotationTimer,
                           mSecurityPolicy, neighbors, keyStore, fault, firesSinceStep>>
            /\ Recorded
    ELSE LET n   == Signal(Signal(Notifier0, EventNetworkKeyChanged),
                           EventThreadKeySeqCounterChanged)
             nk1 == [mNetworkKey EXCEPT !.mKeyRef = aKeyRef]
         IN \E upd \in {UpdateKeyMaterial(0, nk1, keyStore, mMleKey, subMac, mTrelKey)} :
            IF upd.fault
            THEN Abort("SetNetworkKeyRef", aKeyRef)
            ELSE /\ mNetworkKey' = [nk1 EXCEPT !.mCryptoType = "refs"]
                 /\ mKeySequence' = 0
                 /\ keyStore' = upd.store
                 /\ mMleKey' = upd.mle
                 /\ subMac' = upd.mac
                 /\ mTrelKey' = upd.trel
                 /\ neighbors' = ResetFrameCounters(neighbors)
                 /\ mSignaledEvents' = n.signaled
                 /\ emitted' = n.emitted
                 /\ op' = [name |-> "SetNetworkKeyRef", arg |-> aKeyRef, result |-> "applied"]
                 /\ UNCHANGED <<tempKeys, commissioningKeys, storedCounters, keyRefs, mMacFrameCounters, mMleFrameCounter,
                                mHoursSinceKeyRotation, mKeySwitchGuardTime,
                                mKeySwitchGuardEnabled, mKeyRotationTimer,
                                mSecurityPolicy, fault, firesSinceStep>>
                 /\ Recorded

SetNetworkKeyRefCall ==
    /\ ~fault
    /\ keyRefs
    /\ \E aKeyRef \in NetworkKeyRefs : SetNetworkKeyRef(aKeyRef)

----------------------------------------------------------------------------
\* Temporary keys: the keys of a key sequence other than the current one.

\* mTemporaryMleKey.GetKeyRef() read after the derived key was assigned to
\* mTemporaryMleKey: the key reference shares its storage with the literal
\* key (the two 16-byte halves of HashKeys::mHash are the keys), so the value
\* read is the first bytes of the derived key.  It names no stored key (0
\* stands for every such value) or, by coincidence, a stored key: the model
\* follows the coincidence with the reference of the current MLE key.
GetKeyRefOfLiteral(store, mle) == {0} \cup ({mle.mKeyRef} \cap DOMAIN store)

\* KeyManager::GetTemporaryMleKey: key is mTemporaryMleKey on return.  In the
\* key-reference build the reference read from mTemporaryMleKey is destroyed,
\* the derived key is imported into a volatile slot (the new reference stays
\* in a local variable) and mTemporaryMleKey is cleared.
GetTemporaryMleKeyResult(aKeySequence, nk, store, keyRef) ==
    LET hashKeys == ComputeKeys(aKeySequence, keyRefs, nk, store)
        s1       == CheckAndDestroyStoredKey(store, keyRef)
        imp      == otPlatCryptoImportKey(s1, 0, FALSE, hashKeys.mMleKey, "temporaryMle")
    IN IF keyRefs
       THEN [store |-> imp.store, key |-> NoKeys, fault |-> imp.error]
       ELSE [store |-> store, key |-> KeyMaterial(hashKeys.mMleKey, 0), fault |-> FALSE]

GetTemporaryMleKey(aKeySequence) ==
    \E keyRef \in (IF keyRefs THEN GetKeyRefOfLiteral(keyStore, mMleKey) ELSE {0}) :
    \E t \in {GetTemporaryMleKeyResult(aKeySequence, mNetworkKey, keyStore, keyRef)} :
       IF t.fault
       THEN Abort("GetTemporaryMleKey", aKeySequence)
       ELSE /\ mTemporaryMleKey' = t.key
            /\ keyStore' = t.store
            /\ op' = [name |-> "GetTemporaryMleKey", arg |-> aKeySequence, result |-> "ok"]
            /\ emitted' = {}
            /\ UNCHANGED <<mTemporaryTrelKey, commissioningKeys, storedCounters, keyRefs, mNetworkKey, mKeySequence, mMleKey,
                           mTrelKey, subMac, mMacFrameCounters, mMleFrameCounter,
                           mHoursSinceKeyRotation, mKeySwitchGuardTime,
                           mKeySwitchGuardEnabled, mKeyRotationTimer, mSecurityPolicy,
                           mSignaledEvents, neighbors, fault, firesSinceStep>>
            /\ Recorded

\* The key sequence a peer's message asks a temporary key for: the one
\* after the current key sequence (the peer has rotated already).
TemporarySeqs == {Inc32(mKeySequence)} \cap SeqDomain

\* Secured messages are processed once key material is installed.
KeysInstalled == subMac.mKeyId # 0

\* The MLE layer processes a message secured under another key sequence.
GetTemporaryMleKeyCall ==
    /\ ~fault
    /\ KeysInstalled
    /\ \E aKeySequence \in TemporarySeqs : GetTemporaryMleKey(aKeySequence)

\* KeyManager::GetTemporaryTrelMacKey: ComputeTrelKey writes the literal key
\* into mTemporaryTrelKey, in both builds.
GetTemporaryTrelMacKey(aKeySequence) ==
    /\ mTemporaryTrelKey' =
          KeyMaterial(ComputeTrelKey(aKeySequence, keyRefs, mNetworkKey, keyStore), 0)
    /\ op' = [name |-> "GetTemporaryTrelMacKey", arg |-> aKeySequence, result |-> "ok"]
    /\ emitted' = {}
    /\ UNCHANGED <<mTemporaryMleKey, commissioningKeys, storedCounters, keyRefs, mNetworkKey, mKeySequence, mMleKey,
                   mTrelKey, subMac, mMacFrameCounters, mMleFrameCounter,
                   mHoursSinceKeyRotation, mKeySwitchGuardTime,
                   mKeySwitchGuardEnabled, mKeyRotationTimer, mSecurityPolicy,
                   mSignaledEvents, neighbors, keyStore, fault, firesSinceStep>>
    /\ Recorded

GetTemporaryTrelMacKeyCall ==
    /\ ~fault
    /\ KeysInstalled
    /\ \E aKeySequence \in TemporarySeqs : GetTemporaryTrelMacKey(aKeySequence)

----------------------------------------------------------------------------
\* Security policy and frame counters.

\* Every rotation time passes.
RotationTimeAllowedAlways(aSecurityPolicy) == TRUE

\* The condition SetSecurityPolicy asserts.
RotationTimeAllowed(aSecurityPolicy) ==
    aSecurityPolicy.mRotationTime >= kMinKeyRotationTime

\* SetSecurityPolicy starting the rotation interval anew.
SetSecurityPolicyRestartsInterval(aSecurityPolicy) ==
    IF ~RotationTimeAllowed(aSecurityPolicy)
    THEN Abort("SetSecurityPolicy", aSecurityPolicy.mRotationTime)
    ELSE LET u == NotifierUpdate(Notifier0, mSecurityPolicy, aSecurityPolicy,
                                 EventSecurityPolicyChanged)
         IN /\ mSecurityPolicy' = aSecurityPolicy
            /\ mSignaledEvents' = u.n.signaled
            /\ emitted' = u.n.emitted
            /\ mHoursSinceKeyRotation' = 0
            /\ op' = [name |-> "SetSecurityPolicy", arg |-> aSecurityPolicy.mRotationTime,
                      result |-> IF u.already THEN "already" ELSE "applied",
                      policy |-> aSecurityPolicy]
            /\ UNCHANGED <<tempKeys, commissioningKeys, storedCounters, keyRefs, mNetworkKey,
                           mKeySequence, mMleKey, mTrelKey, subMac,
                           mMacFrameCounters, mMleFrameCounter,
                           mKeySwitchGuardTime, mKeySwitchGuardEnabled, mKeyRotationTimer,
                           neighbors, keyStore, fault, firesSinceStep>>
            /\ Recorded

\* KeyManager::SetSecurityPolicy.
SetSecurityPolicy(aSecurityPolicy) ==
    IF ~RotationTimeAllowed(aSecurityPolicy)
    THEN Abort("SetSecurityPolicy", aSecurityPolicy.mRotationTime)
    ELSE LET u == NotifierUpdate(Notifier0, mSecurityPolicy, aSecurityPolicy,
                                 EventSecurityPolicyChanged)
         IN /\ mSecurityPolicy' = aSecurityPolicy
            /\ mSignaledEvents' = u.n.signaled
            /\ emitted' = u.n.emitted
            /\ op' = [name |-> "SetSecurityPolicy", arg |-> aSecurityPolicy.mRotationTime,
                      result |-> IF u.already THEN "already" ELSE "applied",
                      policy |-> aSecurityPolicy]
            /\ UNCHANGED <<tempKeys, commissioningKeys, storedCounters, keyRefs, mNetworkKey, mKeySequence, mMleKey, mTrelKey, subMac,
                           mMacFrameCounters, mMleFrameCounter, mHoursSinceKeyRotation,
                           mKeySwitchGuardTime, mKeySwitchGuardEnabled, mKeyRotationTimer,
                           neighbors, keyStore, fault, firesSinceStep>>
            /\ Recorded

\* The policies callers hand to SetSecurityPolicy: the default flags or
\* routers disabled, under every rotation time.
PolicyArguments ==
    {[p EXCEPT !.mRotationTime = r] :
        p \in {DefaultPolicy, [DefaultPolicy EXCEPT !.mRoutersEnabled = FALSE]},
        r \in 0 .. MaxRotationTime}

SetSecurityPolicyCall ==
    /\ ~fault
    /\ \E r \in 0 .. MaxRotationTime : SetSecurityPolicy([DefaultPolicy EXCEPT !.mRotationTime = r])

\* A caller replaces rotation time and flags.
SetSecurityPolicyFlagsCall ==
    /\ ~fault
    /\ \E aSecurityPolicy \in PolicyArguments : SetSecurityPolicy(aSecurityPolicy)

\* The state the KEK and PSKc operations leave alone.
commissioningRest ==
    <<tempKeys, storedCounters, keyRefs, mNetworkKey, mKeySequence, mMleKey, mTrelKey, subMac,
      mMacFrameCounters, mMleFrameCounter, mHoursSinceKeyRotation,
      mKeySwitchGuardTime, mKeySwitchGuardEnabled, mKeyRotationTimer,
      mSecurityPolicy, neighbors, fault, firesSinceStep>>

\* KeyManager::ImportKek: the reference the KEK holds is destroyed, then
\* the new KEK is imported as a volatile key.
ImportKek(store, kek, aKey) ==
    LET keyRef == kek.mKeyRef
        s1     == CheckAndDestroyStoredKey(store, keyRef)
        imp    == otPlatCryptoImportKey(s1, keyRef, FALSE, KekBytes(aKey), "kek")
    IN [store |-> imp.store, kek |-> KeyMaterial(ClearedKey, imp.keyRef), error |-> imp.error]

\* SetKek without the reset of the KEK frame counter.
KekFrameCounterAfterSetKekKept(counter) == counter

\* KeyManager::SetKek ends with mKekFrameCounter = 0.
KekFrameCounterAfterSetKek(counter) == 0

\* KeyManager::SetKek.
SetKek(aKek) ==
    \E k \in {IF keyRefs
               THEN ImportKek(keyStore, mKek, aKek)
               ELSE [store |-> keyStore, kek |-> KeyMaterial(KekBytes(aKek), 0),
                     error |-> FALSE]} :
       IF k.error
       THEN Abort("SetKek", aKek)
       ELSE /\ mKek' = k.kek
            /\ keyStore' = k.store
            /\ mKekFrameCounter' = KekFrameCounterAfterSetKek(mKekFrameCounter)
            /\ op' = [name |-> "SetKek", arg |-> aKek, result |-> "applied"]
            /\ emitted' = {}
            /\ UNCHANGED <<mPskc, mIsPskcSet, mSignaledEvents, commissioningRest>>
            /\ Recorded

SetKekCall == ~fault /\ \E aKek \in Keks : SetKek(aKek)

\* KeyManager::IncrementKekFrameCounter.
IncrementKekFrameCounter(counter) == Inc32(counter)

\* A message secured with the KEK is sent.
IncrementKekFrameCounterCall ==
    /\ ~fault
    /\ mKekFrameCounter < MaxFrameCounter
    /\ mKekFrameCounter' = IncrementKekFrameCounter(mKekFrameCounter)
    /\ op' = [name |-> "IncrementKekFrameCounter", arg |-> 0, result |-> "ok"]
    /\ emitted' = {}
    /\ UNCHANGED <<mKek, mPskc, mIsPskcSet, mSignaledEvents, keyStore, commissioningRest>>
    /\ Recorded

\* KeyManager::StorePskc: the stored PSKc is destroyed, the literal PSKc
\* imported as a persistent key and cleared.
StorePskc(store, pskc) ==
    LET keyRef == kPskcPsaItsOffset
        s1     == CheckAndDestroyStoredKey(store, keyRef)
        imp    == otPlatCryptoImportKey(s1, keyRef, TRUE, PskcBytes(pskc.mLiteralKey), "pskc")
    IN [store |-> imp.store,
        pskc  |-> [mLiteralKey |-> 0, mKeyRef |-> imp.keyRef, mCryptoType |-> "refs"],
        error |-> imp.error]

\* KeyManager::SetPskc.  Notifier::Update assigns the literal PSKc when it
\* differs; its result is ignored.
SetPskc(aPskc) ==
    LET u  == NotifierUpdate(Notifier0, mPskc.mLiteralKey, aPskc, EventPskcChanged)
        p1 == [mPskc EXCEPT !.mLiteralKey = aPskc]
    IN \E st \in {IF keyRefs
                  THEN StorePskc(keyStore, p1)
                  ELSE [store |-> keyStore, pskc |-> [p1 EXCEPT !.mCryptoType = "literals"],
                        error |-> FALSE]} :
          IF st.error
          THEN Abort("SetPskc", aPskc)
          ELSE /\ mPskc' = st.pskc
               /\ keyStore' = st.store
               /\ mIsPskcSet' = TRUE
               /\ mSignaledEvents' = u.n.signaled
               /\ emitted' = u.n.emitted
               /\ op' = [name |-> "SetPskc", arg |-> aPskc, result |-> "applied"]
               /\ UNCHANGED <<mKek, mKekFrameCounter, commissioningRest>>
               /\ Recorded

SetPskcCall == ~fault /\ \E aPskc \in Pskcs : SetPskc(aPskc)

\* otPlatCryptoExportKey: the key stored under the reference, or an error.
otPlatCryptoExportKey(store, aKeyRef) ==
    IF aKeyRef \in DOMAIN store
    THEN [error |-> FALSE, key |-> store[aKeyRef].key]
    ELSE [error |-> TRUE, key |-> ClearedKey]

\* NetworkKeyInfo::CopyKey: the bytes written to the buffer; error: the
\* OT_ASSERT on the export failed.
NetworkKeyCopyKey(nk, store) ==
    IF nk.mCryptoType = "refs"
    THEN otPlatCryptoExportKey(store, nk.mKeyRef)
    ELSE [error |-> FALSE, key |-> NetworkKeyBytes(nk.mLiteralKey)]

\* PskcInfo::CopyKey.
PskcCopyKey(pskc, store) ==
    IF pskc.mCryptoType = "refs"
    THEN otPlatCryptoExportKey(store, pskc.mKeyRef)
    ELSE [error |-> FALSE, key |-> PskcBytes(pskc.mLiteralKey)]

\* The state the flag conversions and the key derivation leave alone.
policyRest == <<tempKeys, commissioningKeys, storedCounters, keyRefs, mNetworkKey, mKeySequence, mMleKey, mTrelKey, subMac,
                mMacFrameCounters, mMleFrameCounter, mHoursSinceKeyRotation,
                mKeySwitchGuardTime, mKeySwitchGuardEnabled, mKeyRotationTimer,
                mSignaledEvents, neighbors, keyStore, fault, firesSinceStep>>

\* HashKeys is a local of the caller that ComputeKeys fills through
\* hmac.Finish; the errors of the HMAC calls are not looked at, so with a
\* reference that names no key the buffer keeps the bytes it had.
UninitializedHashKeys ==
    {[mMleKey |-> HashKeysGetMleKey([stack |-> b]),
      mMacKey |-> HashKeysGetMacKey([stack |-> b])] : b \in 0 .. 1}

\* The keys a call of ComputeKeys can leave in the caller's HashKeys.
ComputeKeysOutcomes(aKeySequence) ==
    IF NetworkKeyHeld(keyRefs, mNetworkKey, keyStore)
    THEN {ComputeKeys(aKeySequence, keyRefs, mNetworkKey, keyStore)}
    ELSE UninitializedHashKeys

\* ComputeKeys is called for a key sequence.
ComputeKeysCall ==
    /\ ~fault
    /\ \E aKeySequence \in SeqDomain :
       \E keys \in ComputeKeysOutcomes(aKeySequence) :
          op' = [name |-> "ComputeKeys", arg |-> aKeySequence, result |-> keys]
    /\ emitted' = {}
    /\ UNCHANGED <<mSecurityPolicy, policyRest>>
    /\ Recorded

\* The flag lengths callers pass.
FlagsLengths == 1 .. MaxFlagsLength

\* The flags of the security policy are encoded for a dataset.
GetFlagsCall ==
    /\ ~fault
    /\ \E aFlagsLength \in FlagsLengths :
          op' = [name |-> "GetFlags", arg |-> aFlagsLength,
                 result |-> GetFlags(mSecurityPolicy, aFlagsLength)]
    /\ emitted' = {}
    /\ UNCHANGED <<mSecurityPolicy, policyRest>>
    /\ Recorded

\* The flags just encoded are decoded again.
SetFlagsCall ==
    /\ ~fault
    /\ op.name = "GetFlags"
    /\ mSecurityPolicy' = SetFlags(mSecurityPolicy, op.result, op.arg)
    /\ op' = [name |-> "SetFlags", arg |-> op.arg, result |-> op.result]
    /\ emitted' = {}
    /\ UNCHANGED policyRest
    /\ Recorded

\* The store is requested only once the counter has passed the threshold.
StoreRequestedAbove(counter, stored) == ULess32(stored, counter)

\* The test each frame counter operation ends with: the updated counter has
\* reached the stored threshold (unsigned comparison), so Mle::Store() is
\* called to persist the network information.
StoreRequested(counter, stored) == ~ULess32(counter, stored)

\* KeyManager::IncrementMleFrameCounter.
IncrementMleFrameCounter(mle) == Inc32(mle)

\* KeyManager::MacFrameCounterUpdated.
MacFrameCounterUpdated(mac, aMacFrameCounter) == [mac EXCEPT !.m154 = aMacFrameCounter]

\* KeyManager::IncrementTrelMacFrameCounter.
IncrementTrelMacFrameCounter(mac) == [mac EXCEPT !.mTrel = Inc32(@)]

\* KeyManager::SetAllMacFrameCounters.
SetAllMacFrameCounters(mac, aMacFrameCounter) ==
    [m154 |-> aMacFrameCounter, mTrel |-> aMacFrameCounter]

\* A secured MLE message goes out on both radio links: the MLE layer
\* increments the MLE frame counter, the SubMac reports its next frame
\* counter and the TREL link increments its own.
SecuredFrameSent ==
    /\ ~fault
    /\ mMleFrameCounter < MaxFrameCounter
    /\ mMacFrameCounters.m154 < MaxFrameCounter
    /\ mMacFrameCounters.mTrel < MaxFrameCounter
    /\ mMleFrameCounter' = IncrementMleFrameCounter(mMleFrameCounter)
    /\ mMacFrameCounters' =
          IncrementTrelMacFrameCounter(
              MacFrameCounterUpdated(mMacFrameCounters, mMacFrameCounters.m154 + 1))
    /\ op' = [name |-> "SecuredFrameSent", arg |-> 0, result |-> "ok",
              store |-> \/ StoreRequested(mMleFrameCounter', mStoredMleFrameCounter)
                        \/ StoreRequested(mMacFrameCounters'.m154, mStoredMacFrameCounter)
                        \/ StoreRequested(mMacFrameCounters'.mTrel, mStoredMacFrameCounter)]
    /\ emitted' = {}
    /\ UNCHANGED <<tempKeys, commissioningKeys, storedCounters, keyRefs, mNetworkKey, mKeySequence, mMleKey, mTrelKey, subMac,
                   mHoursSinceKeyRotation, mKeySwitchGuardTime, mKeySwitchGuardEnabled,
                   mKeyRotationTimer, mSecurityPolicy, mSignaledEvents, neighbors,
                   keyStore, fault, firesSinceStep>>
    /\ Recorded

\* The frame counter values callers pass (-1 is 0xFFFFFFFF).
FrameCounterValues == {0, MaxFrameCounter, -1}

\* The Key Manager state the frame counter operations leave alone.
counterRest == <<tempKeys, commissioningKeys, storedCounters, keyRefs, mNetworkKey, mKeySequence, mMleKey, mTrelKey, subMac,
                 mHoursSinceKeyRotation, mKeySwitchGuardTime, mKeySwitchGuardEnabled,
                 mKeyRotationTimer, mSecurityPolicy, mSignaledEvents, neighbors,
                 keyStore, fault, firesSinceStep>>

\* The MLE layer sends a secured message.
IncrementMleFrameCounterCall ==
    /\ ~fault
    /\ mMleFrameCounter < MaxFrameCounter
    /\ mMleFrameCounter' = IncrementMleFrameCounter(mMleFrameCounter)
    /\ op' = [name |-> "IncrementMleFrameCounter", arg |-> 0, result |-> "ok",
              store |-> StoreRequested(mMleFrameCounter', mStoredMleFrameCounter)]
    /\ emitted' = {}
    /\ UNCHANGED <<mMacFrameCounters, counterRest>>
    /\ Recorded

\* The TREL link sends a secured frame.
IncrementTrelMacFrameCounterCall ==
    /\ ~fault
    /\ mMacFrameCounters.mTrel < MaxFrameCounter
    /\ mMacFrameCounters' = IncrementTrelMacFrameCounter(mMacFrameCounters)
    /\ op' = [name |-> "IncrementTrelMacFrameCounter", arg |-> 0, result |-> "ok",
              store |-> StoreRequested(mMacFrameCounters'.mTrel, mStoredMacFrameCounter)]
    /\ emitted' = {}
    /\ UNCHANGED <<mMleFrameCounter, counterRest>>
    /\ Recorded

\* The SubMac reports a frame counter.
MacFrameCounterUpdatedCall ==
    /\ ~fault
    /\ \E aMacFrameCounter \in FrameCounterValues :
          /\ mMacFrameCounters' = MacFrameCounterUpdated(mMacFrameCounters, aMacFrameCounter)
          /\ op' = [name |-> "MacFrameCounterUpdated", arg |-> aMacFrameCounter,
                    result |-> "ok",
                    store |-> StoreRequested(mMacFrameCounters'.m154,
                                             mStoredMacFrameCounter)]
    /\ emitted' = {}
    /\ UNCHANGED <<mMleFrameCounter, counterRest>>
    /\ Recorded

\* A caller sets the frame counters of every radio link.
SetAllMacFrameCountersCall ==
    /\ ~fault
    /\ \E aMacFrameCounter \in FrameCounterValues :
          /\ mMacFrameCounters' = SetAllMacFrameCounters(mMacFrameCounters, aMacFrameCounter)
          /\ op' = [name |-> "SetAllMacFrameCounters", arg |-> aMacFrameCounter,
                    result |-> "ok"]
    /\ emitted' = {}
    /\ UNCHANGED <<mMleFrameCounter, counterRest>>
    /\ Recorded

\* The thresholds the MLE layer hands over (-1 is 0xFFFFFFFF).
StoredCounterValues == {0, MaxFrameCounter, -1}

\* The Key Manager state the threshold setters leave alone.
storedRest == <<tempKeys, commissioningKeys, keyRefs, mNetworkKey, mKeySequence, mMleKey,
                mTrelKey, subMac, mMacFrameCounters, mMleFrameCounter,
                mHoursSinceKeyRotation, mKeySwitchGuardTime, mKeySwitchGuardEnabled,
                mKeyRotationTimer, mSecurityPolicy, mSignaledEvents, neighbors,
                keyStore, fault, firesSinceStep>>

\* KeyManager::SetStoredMleFrameCounter: the MLE layer records the value the
\* MLE frame counter was stored ahead to.
SetStoredMleFrameCounterCall ==
    /\ ~fault
    /\ \E aStoredMleFrameCounter \in StoredCounterValues :
          /\ mStoredMleFrameCounter' = aStoredMleFrameCounter
          /\ op' = [name |-> "SetStoredMleFrameCounter", arg |-> aStoredMleFrameCounter,
                    result |-> "ok"]
    /\ emitted' = {}
    /\ UNCHANGED <<mStoredMacFrameCounter, storedRest>>
    /\ Recorded

\* KeyManager::SetStoredMacFrameCounter: the MLE layer records the value the
\* MAC frame counters were stored ahead to.
SetStoredMacFrameCounterCall ==
    /\ ~fault
    /\ \E aStoredMacFrameCounter \in StoredCounterValues :
          /\ mStoredMacFrameCounter' = aStoredMacFrameCounter
          /\ op' = [name |-> "SetStoredMacFrameCounter", arg |-> aStoredMacFrameCounter,
                    result |-> "ok"]
    /\ emitted' = {}
    /\ UNCHANGED <<mStoredMleFrameCounter, storedRest>>
    /\ Recorded

\* The MLE and MAC layers record key sequence and frame counters of the
\* frames they accept from the parent, the routers and the children.
NeighborsHeard ==
    /\ ~fault
    /\ \E n \in NeighborIds : neighbors[n].mMleFrameCounter = 0
    /\ neighbors' = [n \in NeighborIds |->
                        [mKeySequence |-> 1, mLinkFrameCounters |-> 1,
                         mLinkAckFrameCounter |-> 1, mMleFrameCounter |-> 1]]
    /\ op' = [name |-> "NeighborsHeard", arg |-> 0, result |-> "ok"]
    /\ emitted' = {}
    /\ UNCHANGED <<tempKeys, commissioningKeys, storedCounters, keyRefs, mNetworkKey, mKeySequence, mMleKey, mTrelKey, subMac,
                   mMacFrameCounters, mMleFrameCounter, mHoursSinceKeyRotation,
                   mKeySwitchGuardTime, mKeySwitchGuardEnabled, mKeyRotationTimer,
                   mSecurityPolicy, mSignaledEvents, keyStore, fault, firesSinceStep>>
    /\ Recorded

----------------------------------------------------------------------------
\* The literal build under the default security policy, with frame traffic.
Next ==
    \/ Start
    \/ Stop
    \/ SetCurrentKeySequenceCall
    \/ HandleKeyRotationTimer
    \/ SetNetworkKeyCall
    \/ SecuredFrameSent
    \/ NeighborsHeard

Spec == Init /\ [][Next]_vars

\* The literal build with security policy changes: the rotation state
\* machine under every rotation time and guard time.
NextPolicy ==
    \/ Start
    \/ Stop
    \/ SetCurrentKeySequenceCall
    \/ HandleKeyRotationTimer
    \/ SetNetworkKeyCall
    \/ SetSecurityPolicyCall

SpecPolicy == Init /\ [][NextPolicy]_vars

\* The rotation timer is a platform timer that HandleKeyRotationTimer restarts
\* for one hour at every firing: while it stays armed it keeps firing.
\* The network key plays no part in the rotation state machine.
NextRotation ==
    \/ Start
    \/ Stop
    \/ SetCurrentKeySequenceCall
    \/ HandleKeyRotationTimer
    \/ SetSecurityPolicyCall

LiveRotation == Init /\ [][NextRotation]_vars /\ WF_vars(HandleKeyRotationTimer)

\* Both builds, with the temporary keys the MLE and TREL layers ask for
\* while keys are installed, rotated and used.
InitTemporary == KeyManager(FALSE, {MaxGuardTime}) \/ KeyManager(TRUE, {MaxGuardTime})

NextTemporary ==
    \/ Start
    \/ SetCurrentKeySequenceCall
    \/ SecuredFrameSent
    \/ GetTemporaryMleKeyCall
    \/ GetTemporaryTrelMacKeyCall

SpecTemporary == InitTemporary /\ [][NextTemporary]_vars

\* The key-reference build: the operations that derive and import key
\* material, and the rotation state machine that drives them.
NextRefs ==
    \/ Start
    \/ Stop
    \/ SetCurrentKeySequenceCall
    \/ HandleKeyRotationTimer
    \/ SetNetworkKeyCall
    \/ SetNetworkKeyRefCall

SpecRefs == InitRefs /\ [][NextRefs]_vars

\* The literal build with its frame counter operations.
NextCounters ==
    \/ SetCurrentKeySequenceCall
    \/ IncrementMleFrameCounterCall
    \/ IncrementTrelMacFrameCounterCall
    \/ MacFrameCounterUpdatedCall
    \/ SetAllMacFrameCountersCall

SpecCounters == Init /\ [][NextCounters]_vars

\* The values of mVersionThresholdForRouting, a uint8_t.
VersionThresholds == {{}, {0}, {3, 2, 1, 0}, {7, 0}}

\* The security policies a caller can build.
Policies ==
    [mRotationTime                   : {MaxRotationTime},
     mObtainNetworkKeyEnabled        : BOOLEAN,
     mNativeCommissioningEnabled     : BOOLEAN,
     mRoutersEnabled                 : BOOLEAN,
     mExternalCommissioningEnabled   : BOOLEAN,
     mBeaconsEnabled                 : BOOLEAN,
     mCommercialCommissioningEnabled : BOOLEAN,
     mAutonomousEnrollmentEnabled    : BOOLEAN,
     mNetworkKeyProvisioningEnabled  : BOOLEAN,
     mTobleLinkEnabled               : BOOLEAN,
     mNonCcmRoutersEnabled           : BOOLEAN,
     mVersionThresholdForRouting     : VersionThresholds]

\* The flag conversions, from every security policy.
InitFlags == Constructed(FALSE, {MaxGuardTime}, Policies)

NextFlags ==
    \/ GetFlagsCall
    \/ SetFlagsCall

SpecFlags == InitFlags /\ [][NextFlags]_vars

\* Both builds with the KEK and the key rotation.
NextKek ==
    \/ Start
    \/ SetNextKeySequenceCall
    \/ HandleKeyRotationTimer
    \/ SetNetworkKeyCall
    \/ SetKekCall
    \/ IncrementKekFrameCounterCall

\* Both builds, configured with no guard time and the shortest rotation time.
InitKek ==
    \E refs \in BOOLEAN :
       Constructed(refs, {0}, {[DefaultPolicy EXCEPT !.mRotationTime = kMinKeyRotationTime]})

SpecKek == InitKek /\ [][NextKek]_vars

\* Both builds with the operations that set the network key and the PSKc.
NextExport ==
    \/ SetNetworkKeyCall
    \/ SetNetworkKeyRefCall
    \/ SetPskcCall
    \/ SetKekCall

SpecExport == InitTemporary /\ [][NextExport]_vars

\* Both builds: keys are derived while the network key, the key sequence,
\* the frame counters and the rotation state change.
NextDerive ==
    \/ Start
    \/ SetNextKeySequenceCall
    \/ SetNetworkKeyCall
    \/ IncrementMleFrameCounterCall
    \/ ComputeKeysCall

SpecDerive == InitKek /\ [][NextDerive]_vars

\* Both builds: the key sequence is moved across the wraps of its low 7 bits.
NextKeyId ==
    \/ Start
    \/ SetKeySequenceAroundWrapCall
    \/ SetNetworkKeyCall

SpecKeyId == InitKek /\ [][NextKeyId]_vars

\* The keys that outlive the process: those of the persistent slots.
PersistentKeys(store) == [i \in DOMAIN store \cap PersistentKeyIds |-> store[i]]

\* KeyManager::KeyManager run again by a restart of the device (key-reference
\* build): the persistent slots are as the last run left them, the network
\* key is random and StoreNetworkKey(false) is called with its result
\* ignored.
KeyManagerRestart ==
    /\ keyRefs
    /\ ~fault
    /\ \E k \in NetworkKeys :
       \E importFails \in BOOLEAN :
          LET nk0    == [mLiteralKey |-> k, mKeyRef |-> 0, mCryptoType |-> "literals"]
              stored == StoreNetworkKey(FALSE, nk0, PersistentKeys(keyStore), importFails)
          IN /\ mNetworkKey' = stored.nk
             /\ keyStore' = stored.store
             /\ op' = [name |-> "KeyManager", arg |-> k,
                       result |-> IF stored.error THEN "importFailed" ELSE "ok"]
    /\ mKeySequence' = 0
    /\ mMleKey' = NoKeys
    /\ mTrelKey' = NoKeys
    /\ mTemporaryMleKey' = NoKeys
    /\ mTemporaryTrelKey' = NoKeys
    /\ mKek' = NoKeys
    /\ mKekFrameCounter' = 0
    /\ mPskc' = [mLiteralKey |-> 0, mKeyRef |-> 0, mCryptoType |-> "literals"]
    /\ mIsPskcSet' = FALSE
    /\ subMac' = [mKeyId |-> 0, mPrevKey |-> NoKeys, mCurrKey |-> NoKeys, mNextKey |-> NoKeys]
    /\ mMacFrameCounters' = [m154 |-> 0, mTrel |-> 0]
    /\ mMleFrameCounter' = 0
    /\ mStoredMacFrameCounter' = 0
    /\ mStoredMleFrameCounter' = 0
    /\ mHoursSinceKeyRotation' = 0
    /\ mKeySwitchGuardEnabled' = FALSE
    /\ mKeyRotationTimer' = FALSE
    /\ mSignaledEvents' = {}
    /\ neighbors' = NeighborInit
    /\ emitted' = {}
    /\ firesSinceStep' = -1
    /\ UNCHANGED <<keyRefs, mKeySwitchGuardTime, mSecurityPolicy, fault>>
    /\ Recorded

\* The key-reference build over restarts of the device.
NextStore ==
    \/ SetNetworkKeyCall
    \/ SetCurrentKeySequenceCall
    \/ KeyManagerRestart

SpecStore == InitRefs /\ [][NextStore]_vars

----------------------------------------------------------------------------
\* Properties.

\* The last operation was a call of SetCurrentKeySequence that took effect
\* (by a caller or by the rotation timer).
KeySequenceSet ==
    /\ op.name \in {"SetCurrentKeySequence", "HandleKeyRotationTimer"}
    /\ op.result \in {"applied", "stepped"}

\* The MAC and MLE keys derived from the current network key at key sequence s.
DerivedKeys(s) == ComputeKeys(s, keyRefs, mNetworkKey, keyStore)

\* The installed keys are the ones derived at the key sequence s.
InstalledKeysAre(s) ==
    /\ KeyValue(keyRefs, subMac.mCurrKey, keyStore) = DerivedKeys(s).mMacKey
    /\ KeyValue(keyRefs, subMac.mPrevKey, keyStore) = DerivedKeys(Dec32(s)).mMacKey
    /\ KeyValue(keyRefs, subMac.mNextKey, keyStore) = DerivedKeys(Inc32(s)).mMacKey
    /\ KeyValue(keyRefs, mMleKey, keyStore) = DerivedKeys(s).mMleKey

\* C1: while the rotation timer runs, the guard is enabled and
\* mHoursSinceKeyRotation < mKeySwitchGuardTime, SetCurrentKeySequence(current + 1)
\* changes nothing of the Key Manager (key sequence, keys, frame counters,
\* hours counter, timer, guard flag) and signals no event.
C1_GuardedStepIsSilentNoOp ==
    [][(/\ op'.name = "SetCurrentKeySequence"
        /\ op'.arg = Inc32(mKeySequence)
        /\ mKeyRotationTimer
        /\ mKeySwitchGuardEnabled
        /\ mHoursSinceKeyRotation < mKeySwitchGuardTime)
       => (/\ UNCHANGED kmVars
           /\ emitted' = {}
           /\ op'.result = "absorbed")]_vars

\* A single step was just absorbed while the guard time had not elapsed.
C1_Witness ==
    /\ op.name = "SetCurrentKeySequence"
    /\ op.result = "absorbed"
    /\ op.arg = Inc32(mKeySequence)
    /\ mKeyRotationTimer
    /\ mKeySwitchGuardEnabled
    /\ mHoursSinceKeyRotation < mKeySwitchGuardTime
    /\ mHoursSinceKeyRotation > 0

\* C2: after a SetCurrentKeySequence(n) that took effect, the key sequence
\* is n, the installed previous / current / next MAC keys are the MAC keys of
\* ComputeKeys(n - 1), ComputeKeys(n), ComputeKeys(n + 1) (modulo 2^32), and
\* the 802.15.4 MAC, TREL and MLE frame counters of the Key Manager are zero.
C2_KeysAndCountersAfterSet ==
    KeySequenceSet =>
        /\ mKeySequence = op.arg
        /\ KeyValue(keyRefs, subMac.mPrevKey, keyStore) = DerivedKeys(Dec32(op.arg)).mMacKey
        /\ KeyValue(keyRefs, subMac.mCurrKey, keyStore) = DerivedKeys(op.arg).mMacKey
        /\ KeyValue(keyRefs, subMac.mNextKey, keyStore) = DerivedKeys(Inc32(op.arg)).mMacKey
        /\ mMacFrameCounters.m154 = 0
        /\ mMacFrameCounters.mTrel = 0
        /\ mMleFrameCounter = 0

\* The key sequence was set to 0 after frames had been exchanged: the
\* previous key is the one of 0xFFFFFFFF.
C2_Witness ==
    /\ KeySequenceSet
    /\ op.arg = 0
    /\ subMac.mPrevKey.mKey.of.hmacMsg = <<255, 255, 255, 255>> \o kThreadString
    /\ neighbors["parent"].mMleFrameCounter > 0
    /\ mNetworkKey.mLiteralKey = MaxKey

\* C3: in every state, from construction on, the installed current MAC key
\* and the MLE key are derived from the current network key at the current
\* key sequence, the previous / next MAC keys at current - 1 / current + 1.
C3_DerivedKeysAlways == InstalledKeysAre(mKeySequence)

\* The timer firings between the last accepted single step and the step
\* being taken (a firing that makes the step counts).
FiresBeforeStep ==
    IF op'.name = "HandleKeyRotationTimer" THEN FiresAfterTick ELSE firesSinceStep

\* C4: while the rotation timer stays armed, after an accepted single-step
\* advance no further single-step advance is accepted before the timer has
\* fired mKeySwitchGuardTime times.
C4_MinimumDwell ==
    [][(op'.result = "stepped" /\ firesSinceStep >= 0)
       => FiresBeforeStep >= mKeySwitchGuardTime]_vars

\* The network key the Key Manager currently derives from.
CurrentNetworkKey == NetworkKeyMaterial(keyRefs, mNetworkKey, keyStore)

\* The key sequence and frame counters kept for the parent, the routers and
\* the children in a state other than invalid are zero.
NeighborCountersZero ==
    \A n \in NeighborIds : IsResetByKeyManager(n) => neighbors[n] = NeighborZero

\* C5: SetNetworkKey(k) with k different from the current network key leaves
\* the network key k, the key sequence 0, the keys derived from k for
\* 0xFFFFFFFF / 0 / 1 installed, and every frame counter zero: the Key
\* Manager's own and the ones kept for the parent, routers and children.
C5_SetNetworkKeyResetsAll ==
    [][(op'.name = "SetNetworkKey" /\ NetworkKeyBytes(op'.arg) # CurrentNetworkKey)
       => (/\ CurrentNetworkKey' = NetworkKeyBytes(op'.arg)
           /\ mKeySequence' = 0
           /\ InstalledKeysAre(0)'
           /\ mMacFrameCounters' = [m154 |-> 0, mTrel |-> 0]
           /\ mMleFrameCounter' = 0
           /\ NeighborCountersZero')]_vars

\* The last operation ran UpdateKeyMaterial to its end.
KeyMaterialUpdated ==
    \/ KeySequenceSet
    \/ op.name \in {"SetNetworkKey", "SetNetworkKeyRef"} /\ op.result = "applied"

\* The key slots UpdateKeyMaterial imports into.
DerivedKeySlots == {"mle", "macPrev", "macCurr", "macNext", "trel"}

\* The live references of the secure element imported for the slot.
LiveRefs(slot) == {i \in DOMAIN keyStore : keyStore[i].slot = slot}

\* C6: with key references, after any number of UpdateKeyMaterial calls
\* exactly one live reference exists per key slot (MLE key, previous /
\* current / next MAC key, TREL key).
C6_OneLiveRefPerSlot ==
    (keyRefs /\ KeyMaterialUpdated) =>
        \A slot \in DerivedKeySlots : Cardinality(LiveRefs(slot)) = 1

\* Everything of the Key Manager but the events the Notifier has signalled.
kmVarsButSignaled ==
    <<mTemporaryMleKey, mTemporaryTrelKey, mKek, mKekFrameCounter, mPskc, mIsPskcSet,
      mStoredMacFrameCounter, mStoredMleFrameCounter, keyRefs, mNetworkKey, mKeySequence, mMleKey, mTrelKey, subMac,
      mMacFrameCounters, mMleFrameCounter, mHoursSinceKeyRotation,
      mKeySwitchGuardTime, mKeySwitchGuardEnabled, mKeyRotationTimer,
      mSecurityPolicy, neighbors, keyStore, fault>>

\* C7: SetCurrentKeySequence(n) with n the current key sequence recomputes
\* no key, resets no frame counter and leaves guard, hours counter and timer
\* alone; it signals ThreadKeySeqCounterChanged only if that event was never
\* signalled before, and a signalled event stays signalled: redundant calls
\* signal at most once over a run.
C7_RedundantCallSignalsIfFirst ==
    [][/\ mSignaledEvents \subseteq mSignaledEvents'
       /\ (op'.name = "SetCurrentKeySequence" /\ op'.arg = mKeySequence)
          => (/\ UNCHANGED kmVarsButSignaled
              /\ emitted' = {EventThreadKeySeqCounterChanged} \ mSignaledEvents
              /\ mSignaledEvents' = mSignaledEvents \cup {EventThreadKeySeqCounterChanged}
              /\ op'.result = "redundant")]_vars

\* A redundant call that signalled nothing, made with frame counters and
\* hours counter away from zero.
C7_Witness ==
    /\ op.name = "SetCurrentKeySequence"
    /\ op.result = "redundant"
    /\ emitted = {}
    /\ mMleFrameCounter > 0
    /\ mKeyRotationTimer
    /\ mKeySwitchGuardEnabled
    /\ mHoursSinceKeyRotation > 0

C9_KeySequenceMonotonic ==
    [][IF op'.name \in {"SetNetworkKey", "SetNetworkKeyRef"}
       THEN mKeySequence' \in {0, mKeySequence}
       ELSE ~ULess32(mKeySequence', mKeySequence)]_vars

\* A single step has just been absorbed at key sequence s.
AbsorbedAt(s) == op.result = "absorbed" /\ mKeySequence = s

\* The Key Manager is no longer Running: Stop was called or the process
\* was aborted.
NotRunning == ~mKeyRotationTimer \/ fault

\* C10: while the Key Manager stays Running (no Stop) and the timer keeps
\* firing, an absorbed single step is eventually permitted: the key sequence
\* eventually leaves the value it was absorbed at (by the step to
\* current + 1, unless another call has set it before), for every rotation
\* time and every guard time.
C10_AbsorbedStepEventuallyPermitted ==
    \A s \in SeqDomain : AbsorbedAt(s) ~> (mKeySequence # s \/ NotRunning)

\* C10, amended: the same while no Stop and no further Start is performed;
\* Start sets the hours counter back to 0.
C10_PermittedUnlessRestarted ==
    \A s \in SeqDomain :
        AbsorbedAt(s) ~> (mKeySequence # s \/ NotRunning \/ op.name = "Start")

\* The timer's own request was absorbed: the rotation time has elapsed, the
\* guard time has not.
C10_Witness ==
    /\ op.name = "HandleKeyRotationTimer"
    /\ op.result = "absorbed"
    /\ mSecurityPolicy.mRotationTime < mKeySwitchGuardTime
    /\ mHoursSinceKeyRotation < mKeySwitchGuardTime

\* C11: a firing of the rotation timer counts mHoursSinceKeyRotation up by
\* exactly one and leaves the timer armed; it requests
\* SetCurrentKeySequence(current + 1) if and only if the incremented hours
\* counter is >= the rotation time of the security policy.  (A request that
\* passes the guard check restarts the timer, which sets the counter to 0.)
C11_TimerFiring ==
    [][op'.name = "HandleKeyRotationTimer" =>
        /\ mKeyRotationTimer'
        /\ IF mHoursSinceKeyRotation + 1 >= mSecurityPolicy.mRotationTime
           THEN /\ op'.arg = Inc32(mKeySequence)
                /\ op'.result \in {"absorbed", "stepped"}
                /\ op'.result = "absorbed" <=>
                      (mKeySwitchGuardEnabled
                       /\ mHoursSinceKeyRotation + 1 < mKeySwitchGuardTime)
                /\ op'.result = "absorbed" =>
                      /\ mKeySequence' = mKeySequence
                      /\ mHoursSinceKeyRotation' = mHoursSinceKeyRotation + 1
                /\ op'.result = "stepped" =>
                      /\ mKeySequence' = Inc32(mKeySequence)
                      /\ mHoursSinceKeyRotation' =
                            IF mKeySwitchGuardEnabled
                            THEN 0 ELSE mHoursSinceKeyRotation + 1
           ELSE /\ op'.result = "tick"
                /\ mKeySequence' = mKeySequence
                /\ mHoursSinceKeyRotation' = mHoursSinceKeyRotation + 1]_vars

\* A firing made the request in the very hour the rotation time was reached,
\* with the guard not yet enabled.
C11_Witness ==
    /\ op.name = "HandleKeyRotationTimer"
    /\ op.result = "stepped"
    /\ mHoursSinceKeyRotation = mSecurityPolicy.mRotationTime
    /\ mSecurityPolicy.mRotationTime = MaxRotationTime

\* C12: after Start, from any state (also one already Running with the
\* guard enabled), the key switch guard is disabled, the hours counter is 0
\* and the rotation timer is armed; the key sequence, the network key and
\* the installed keys are unchanged.
C12_StartResetsRotationState ==
    [][op'.name = "Start" =>
        /\ ~mKeySwitchGuardEnabled'
        /\ mHoursSinceKeyRotation' = 0
        /\ mKeyRotationTimer'
        /\ UNCHANGED <<mKeySequence, mNetworkKey, mMleKey, mTrelKey, subMac, keyStore,
                       mMacFrameCounters, mMleFrameCounter, mKeySwitchGuardTime>>]_vars

\* Start was called while Running with the guard enabled, keys installed.
C12_Witness ==
    /\ op.name = "Start"
    /\ op.result = "restartedGuarded"
    /\ mKeySequence = MaxSeq
    /\ InstalledKeysAre(MaxSeq)
    /\ mKeySwitchGuardTime > 0

\* C13: after Stop and until the next Start the rotation timer does not
\* fire, so the timer changes neither the hours counter nor the key sequence,
\* and no operation but Start arms the timer again (no SetCurrentKeySequence
\* and no SetNetworkKey call does).
C13_StoppedUntilStart ==
    [][/\ op'.name = "Stop" => ~mKeyRotationTimer'
       /\ ~mKeyRotationTimer =>
             /\ op'.name # "HandleKeyRotationTimer"
             /\ op'.name # "Start" =>
                   /\ ~mKeyRotationTimer'
                   /\ mHoursSinceKeyRotation' = mHoursSinceKeyRotation]_vars

\* While Stopped, with the guard enabled and hours counted before the Stop,
\* a SetCurrentKeySequence call took effect.
C13_Witness ==
    /\ ~mKeyRotationTimer
    /\ op.name = "SetCurrentKeySequence"
    /\ op.result = "applied"
    /\ op.arg = MaxSeq
    /\ mKeySwitchGuardEnabled
    /\ mHoursSinceKeyRotation > 0
    /\ mHoursSinceKeyRotation < mKeySwitchGuardTime

\* C14: every SetCurrentKeySequence call that changes the key sequence
\* leaves the key switch guard enabled for the next call, whether it was a
\* guard-checked single step, a jump, or a call made while Stopped.
C14_GuardEnabledAfterChange ==
    [][(op'.name \in {"SetCurrentKeySequence", "HandleKeyRotationTimer"}
        /\ mKeySequence' # mKeySequence)
       => mKeySwitchGuardEnabled']_vars

\* C15: in the key-reference build every GetTemporaryMleKey call destroys the
\* reference the call before it created, so at most one temporary MLE key
\* reference is live after any number of calls.
C15_OneTemporaryMleRef == Cardinality(LiveRefs("temporaryMle")) <= 1

\* C16: the key GetTemporaryMleKey(s) returns stands for the MLE key derived
\* for s: the literal bytes in the literal build, in the key-reference build
\* a reference that names a live slot holding exactly that key.
C16_TemporaryMleKeyIsDerived ==
    (op.name = "GetTemporaryMleKey" /\ op.result = "ok") =>
        /\ keyRefs => mTemporaryMleKey.mKeyRef \in DOMAIN keyStore
        /\ KeyValue(keyRefs, mTemporaryMleKey, keyStore) = DerivedKeys(op.arg).mMleKey

\* C17: GetTemporaryMleKey and GetTemporaryTrelMacKey leave the installed
\* window alone, in both builds: the key sequence, the installed MAC, MLE and
\* TREL keys, every stored key that backs them, the frame counters and the
\* guard and timer state are the same after the call.
C17_TemporaryKeysLeaveWindow ==
    [][op'.name \in {"GetTemporaryMleKey", "GetTemporaryTrelMacKey"} =>
        /\ UNCHANGED <<mKeySequence, mNetworkKey, mMleKey, mTrelKey, subMac,
                       mMacFrameCounters, mMleFrameCounter, mHoursSinceKeyRotation,
                       mKeySwitchGuardTime, mKeySwitchGuardEnabled, mKeyRotationTimer>>
        /\ \A i \in DOMAIN keyStore :
              keyStore[i].slot # "temporaryMle"
                  => (i \in DOMAIN keyStore' /\ keyStore'[i] = keyStore[i])]_vars

\* C18: a failed import or HMAC primitive ends the operation in a fatal
\* fault: no operation returns normally with key material that was not
\* imported, such as a cleared literal network key next to a reference to
\* a slot that holds no key.
C18_FailFast ==
    (keyRefs /\ ~fault) =>
        /\ mNetworkKey.mKeyRef \in DOMAIN keyStore
        /\ op.result # "importFailed"

\* C19: StoreNetworkKey(false), called by the constructor, leaves a key
\* already stored in the network key slot as it is and adopts its reference;
\* when the slot holds no key it imports the literal key and reports no
\* error.  StoreNetworkKey(true), called by SetNetworkKey, always replaces
\* the stored key by the new one.  Either way the Key Manager ends with the
\* reference of the slot.
C19_StoreNetworkKeyOverwrite ==
    [][/\ op'.name = "KeyManager"
          => /\ mNetworkKey'.mKeyRef = kNetworkKeyPsaItsOffset
             /\ kNetworkKeyPsaItsOffset \in DOMAIN keyStore'
             /\ IF kNetworkKeyPsaItsOffset \in DOMAIN keyStore
                THEN keyStore'[kNetworkKeyPsaItsOffset] = keyStore[kNetworkKeyPsaItsOffset]
                ELSE /\ keyStore'[kNetworkKeyPsaItsOffset].key = NetworkKeyBytes(op'.arg)
                     /\ op'.result = "ok"
       /\ (op'.name = "SetNetworkKey" /\ op'.result \notin {"already", "fault"})
          => /\ mNetworkKey'.mKeyRef = kNetworkKeyPsaItsOffset
             /\ kNetworkKeyPsaItsOffset \in DOMAIN keyStore'
             /\ keyStore'[kNetworkKeyPsaItsOffset].key = NetworkKeyBytes(op'.arg)]_vars

\* C20: between two consecutive changes of the key sequence or of the
\* network key, the MLE frame counter, the 802.15.4 MAC frame counter and
\* the TREL frame counter never take a value they already had since that
\* change.
C20_FrameCountersNeverRepeat ==
    [][~GenerationChanged
          => /\ mMleFrameCounter' # mMleFrameCounter
                => mMleFrameCounter' \notin countersHeld.mle
             /\ mMacFrameCounters'.m154 # mMacFrameCounters.m154
                => mMacFrameCounters'.m154 \notin countersHeld.m154
             /\ mMacFrameCounters'.mTrel # mMacFrameCounters.mTrel
                => mMacFrameCounters'.mTrel \notin countersHeld.mTrel]_vars

\* C21: for every security policy and every flag length, encoding the
\* policy with GetFlags, decoding the bytes with SetFlags and encoding the
\* decoded policy again yields the bytes of the first encoding.
C21_FlagsRoundTrip ==
    \A aFlagsLength \in FlagsLengths :
       LET bytes == GetFlags(mSecurityPolicy, aFlagsLength)
       IN GetFlags(SetFlags(mSecurityPolicy, bytes, aFlagsLength), aFlagsLength) = bytes

\* The bytes of a policy with inverted bits enabled, the TOBLE link disabled
\* and a version threshold with bits outside its mask were decoded and
\* encoded again in two bytes.
C21_Witness ==
    /\ op.name = "GetFlags"
    /\ op.arg = 2
    /\ mSecurityPolicy = SetFlags(mSecurityPolicy, op.result, op.arg)
    /\ mSecurityPolicy.mCommercialCommissioningEnabled
    /\ ~mSecurityPolicy.mObtainNetworkKeyEnabled
    /\ mSecurityPolicy.mTobleLinkEnabled
    /\ mSecurityPolicy.mVersionThresholdForRouting = {0}

\* C22: SetSecurityPolicy with a rotation time below the minimum is
\* rejected by a failed assertion: the stored security policy is unchanged
\* and no SecurityPolicyChanged notification is emitted.
C22_ShortRotationTimeRejected ==
    [][(op'.name = "SetSecurityPolicy" /\ op'.arg < kMinKeyRotationTime)
          => /\ op'.result = "fault"
             /\ fault'
             /\ mSecurityPolicy' = mSecurityPolicy
             /\ mSignaledEvents' = mSignaledEvents
             /\ EventSecurityPolicyChanged \notin emitted']_vars

\* A policy with a rotation time below the minimum was rejected after a
\* policy other than the default one had been stored.
C22_Witness ==
    /\ op.name = "SetSecurityPolicy"
    /\ op.arg = 0
    /\ op.result = "fault"
    /\ mSecurityPolicy.mRotationTime = kMinKeyRotationTime
    /\ mSecurityPolicy # DefaultPolicy
    /\ EventSecurityPolicyChanged \in mSignaledEvents

\* C23: after SetNetworkKey(k) the CopyKey of the network key yields k, and
\* after SetPskc(p) the CopyKey of the PSKc yields p, for every key
\* (the all-zero key included) in both builds.
C23_KeyExportRoundTrip ==
    /\ (op.name = "SetNetworkKey" /\ op.result # "fault")
          => NetworkKeyCopyKey(mNetworkKey, keyStore)
                = [error |-> FALSE, key |-> NetworkKeyBytes(op.arg)]
    /\ (op.name = "SetPskc" /\ op.result # "fault")
          => PskcCopyKey(mPskc, keyStore) = [error |-> FALSE, key |-> PskcBytes(op.arg)]

\* C24: in the key-reference build, at the end of every operation each
\* secret the Key Manager holds (network key, PSKc, KEK, MLE key, installed
\* MAC keys, TREL key, temporary MLE and TREL keys) is represented by a
\* reference only: its literal bytes are cleared, and the temporary keys
\* handed out name a stored key.
C24_ReferenceOnly ==
    (keyRefs /\ ~fault) =>
        /\ mNetworkKey.mLiteralKey = 0
        /\ mPskc.mLiteralKey = 0
        /\ \A km \in {mKek, mMleKey, mTrelKey, mTemporaryMleKey, mTemporaryTrelKey,
                       subMac.mPrevKey, subMac.mCurrKey, subMac.mNextKey} :
              km.mKey = ClearedKey
        /\ op.name = "GetTemporaryMleKey" => mTemporaryMleKey.mKeyRef \in DOMAIN keyStore
        /\ op.name = "GetTemporaryTrelMacKey" => mTemporaryTrelKey.mKeyRef \in DOMAIN keyStore

Uint32OfBytes(b) ==
    LET top == IF b[1] >= 128 THEN b[1] - 256 ELSE b[1]
    IN ((top * 256 + b[2]) * 256 + b[3]) * 256 + b[4]

C27_ImportNewThenDestroyOld ==
    [][keyRefs =>
          /\ (/\ op'.name = "SetNetworkKey"
              /\ op'.result = "importFailed"
              /\ kNetworkKeyPsaItsOffset \in DOMAIN keyStore)
                => /\ kNetworkKeyPsaItsOffset \in DOMAIN keyStore'
                   /\ keyStore'[kNetworkKeyPsaItsOffset] = keyStore[kNetworkKeyPsaItsOffset]
          /\ (op'.name = "SetKek" /\ op'.result = "applied" /\ mKek.mKeyRef # 0)
                => \/ mKek.mKeyRef \notin DOMAIN keyStore'
                   \/ mKek'.mKeyRef = mKek.mKeyRef
          /\ (op'.name = "SetPskc" /\ op'.result = "applied" /\ mPskc.mKeyRef # 0)
                => \/ mPskc.mKeyRef \notin DOMAIN keyStore'
                   \/ mPskc'.mKeyRef = mPskc.mKeyRef]_vars

\* The keys in use for frames: the MLE key and the three MAC keys with their
\* key id.
DerivedKeyValues ==
    <<KeyValue(keyRefs, mMleKey, keyStore), KeyValue(keyRefs, subMac.mPrevKey, keyStore),
      KeyValue(keyRefs, subMac.mCurrKey, keyStore), KeyValue(keyRefs, subMac.mNextKey, keyStore),
      subMac.mKeyId>>

\* C28: SetKek installs the new KEK and sets the KEK frame counter to 0 and
\* leaves the key sequence, the MLE and MAC keys and the MLE and MAC frame
\* counters as they are; SetCurrentKeySequence, a firing of the rotation
\* timer and SetNetworkKey leave the KEK and the KEK frame counter as they
\* are.
C28_KekIndependent ==
    [][/\ (op'.name = "SetKek" /\ op'.result = "applied")
          => /\ KeyValue(keyRefs, mKek, keyStore)' = KekBytes(op'.arg)
             /\ mKekFrameCounter' = 0
             /\ mKeySequence' = mKeySequence
             /\ DerivedKeyValues' = DerivedKeyValues
             /\ mMleFrameCounter' = mMleFrameCounter
             /\ mMacFrameCounters' = mMacFrameCounters
       /\ (/\ op'.name \in {"SetCurrentKeySequence", "HandleKeyRotationTimer", "SetNetworkKey"}
           /\ op'.result # "fault")
          => /\ KeyValue(keyRefs, mKek, keyStore)' = KeyValue(keyRefs, mKek, keyStore)
             /\ mKekFrameCounter' = mKekFrameCounter]_vars

\* C28 witness: in the key-reference build, with keys installed for a later
\* key sequence and KEK frames counted, SetKek has replaced a KEK by another.
C28_Witness ==
    /\ keyRefs
    /\ op.name = "SetKek"
    /\ op.result = "applied"
    /\ mKeySequence # 0
    /\ subMac.mKeyId # 0
    /\ mKekFrameCounter = 0
    /\ KeyValue(keyRefs, mKek, keyStore) = KekBytes(op.arg)
    /\ EventNetworkKeyChanged \in mSignaledEvents

\* C28 witness of the converse: the rotation timer has advanced the key
\* sequence while a KEK was installed and its frame counter was not 0.
C28_WitnessRotation ==
    /\ op.name = "HandleKeyRotationTimer"
    /\ mKeySequence # 0
    /\ mKekFrameCounter # 0
    /\ KeyValue(keyRefs, mKek, keyStore) \in {KekBytes(k) : k \in Keks}

\* Bit i of a uint32_t.
Bit32(s, i) == (s \div (2 ^ i)) % 2

\* The value of the low 7 bits of a uint32_t.
Low7Bits(s) == Bit32(s, 0) + 2 * Bit32(s, 1) + 4 * Bit32(s, 2) + 8 * Bit32(s, 3)
                  + 16 * Bit32(s, 4) + 32 * Bit32(s, 5) + 64 * Bit32(s, 6)

\* C29: every operation that installs MAC keys (it sets the key sequence or
\* the network key) leaves one key index with the three key generations: the
\* value of the low 7 bits of the key sequence plus 1, a number in 1..128;
\* when the key sequence goes from 127 to 128 the index goes from 128 to 1.
C29_MacKeyIndex ==
    [][/\ (\/ op'.name = "SetCurrentKeySequence" /\ op'.result \in {"applied", "stepped"}
           \/ op'.name = "SetNetworkKey" /\ op'.result \notin {"already", "fault"})
          => /\ subMac'.mKeyId \in 1 .. 128
             /\ subMac'.mKeyId = Low7Bits(mKeySequence') + 1
       /\ (subMac.mKeyId # 0 /\ mKeySequence = 127 /\ mKeySequence' = 128)
          => (subMac.mKeyId = 128 /\ subMac'.mKeyId = 1)]_vars

\* C29 witness of the wrap: a single step of the key sequence from 127 has
\* installed keys for 128 with key index 1.
C29_WitnessWrap ==
    /\ op.name = "SetCurrentKeySequence"
    /\ op.result = "stepped"
    /\ mKeySequence = 128
    /\ subMac.mKeyId = 1

\* C29 witness: with the rotation timer running, a jump of the key sequence
\* to 0xFFFFFFFF has installed keys with key index 128.
C29_Witness ==
    /\ op.name = "SetCurrentKeySequence"
    /\ op.result = "applied"
    /\ mKeySequence = -1
    /\ subMac.mKeyId = 128
    /\ mKeyRotationTimer

\* C30: when a single step of the key sequence is accepted while the
\* rotation timer runs and the guard is enabled (the hours counted have
\* reached the guard time), the call returns with mHoursSinceKeyRotation 0
\* and the rotation timer running, started anew.
C30_GuardedStepRestartsTimer ==
    [][(/\ op'.name \in {"SetCurrentKeySequence", "HandleKeyRotationTimer"}
        /\ op'.result = "stepped"
        /\ mKeySwitchGuardEnabled)
       => /\ mHoursSinceKeyRotation' = 0
          /\ mKeyRotationTimer'
          /\ firesSinceStep' = 0
          /\ op'.restarted]_vars

\* C30 witness: a caller's single step was accepted with the guard enabled
\* under a guard time that is not 0, and restarted the rotation timer.
C30_Witness ==
    /\ op.name = "SetCurrentKeySequence"
    /\ op.result = "stepped"
    /\ op.restarted
    /\ mKeySwitchGuardTime > 0
    /\ mHoursSinceKeyRotation = 0
    /\ mKeyRotationTimer
    /\ mKeySwitchGuardEnabled

\* The operation was a firing of the rotation timer that advanced the key
\* sequence.
TimerAdvanced(o) == o.name = "HandleKeyRotationTimer" /\ o.result = "stepped"

\* C31: while the rotation timer runs, with the security policy unchanged
\* and no call in between, two advances of the key sequence made by the
\* rotation timer are at least mRotationTime firings apart: a firing that
\* follows an advancing firing directly advances the key sequence again
\* only under a rotation time of one hour at most.
C31_TimerRotationsSpaced ==
    [][(TimerAdvanced(op) /\ TimerAdvanced(op') /\ UNCHANGED mSecurityPolicy)
          => mSecurityPolicy.mRotationTime <= 1]_vars

C32_WitnessRestart ==
    /\ op.name = "HandleKeyRotationTimer"
    /\ op.result = "stepped"
    /\ op.restarted
    /\ mHoursSinceKeyRotation = 0
    /\ mKeySwitchGuardTime > 0

\* C33: in every state with the rotation timer armed,
\* mHoursSinceKeyRotation is the number of firings of the rotation timer
\* since the timer was last started afresh, by Start or by a single step
\* that passed the guard check, however the firings interleave with calls of
\* SetCurrentKeySequence, SetNetworkKey and SetSecurityPolicy.
C33_HoursCountFirings ==
    (mKeyRotationTimer /\ ~fault) => mHoursSinceKeyRotation = firingsSinceStarted

\* C33 witness: the timer has fired twice since it was started, and a jump
\* of the key sequence, a new network key and a new security policy came in
\* between.
C33_Witness ==
    /\ mKeyRotationTimer
    /\ firingsSinceStarted >= 2
    /\ mHoursSinceKeyRotation = firingsSinceStarted
    /\ EventNetworkKeyChanged \in mSignaledEvents
    /\ EventSecurityPolicyChanged \in mSignaledEvents
    /\ EventThreadKeySeqCounterChanged \in mSignaledEvents
    /\ mKeySequence # 0

\* C34: in both builds SetNetworkKey(k) with k the network key in use
\* changes nothing (key sequence, installed keys, frame counters, neighbor
\* tables) and emits no notification, and SetNetworkKey(k) with another k is
\* never answered as unchanged.
C34_SameNetworkKeyIsNoOp ==
    [][(op'.name = "SetNetworkKey" /\ op'.result # "fault")
          => IF NetworkKeyBytes(op'.arg) = CurrentNetworkKey
             THEN /\ mKeySequence' = mKeySequence
                  /\ DerivedKeyValues' = DerivedKeyValues
                  /\ mMleFrameCounter' = mMleFrameCounter
                  /\ mMacFrameCounters' = mMacFrameCounters
                  /\ neighbors' = neighbors
                  /\ emitted' = {}
             ELSE op'.result # "already"]_vars

\* The part of C34 on the answer alone: the call is answered as unchanged
\* exactly for the key in use.
C34_AnsweredUnchangedIffSame ==
    [][(op'.name = "SetNetworkKey" /\ op'.result # "fault")
          => (op'.result = "already" <=> NetworkKeyBytes(op'.arg) = CurrentNetworkKey)]_vars

----------------------------------------------------------------------------
\* The literal build with frame traffic and the MLE layer moving the
\* thresholds.
NextPersist ==
    \/ IncrementMleFrameCounterCall
    \/ IncrementTrelMacFrameCounterCall
    \/ MacFrameCounterUpdatedCall
    \/ SetAllMacFrameCountersCall
    \/ SetStoredMleFrameCounterCall
    \/ SetStoredMacFrameCounterCall

SpecPersist == Init /\ [][NextPersist]_vars

\* C35: whenever, after IncrementMleFrameCounter, MacFrameCounterUpdated or
\* IncrementTrelMacFrameCounter, the updated counter is at or above the
\* corresponding stored threshold (the MLE threshold for the MLE counter,
\* the MAC threshold for the 802.15.4 and the TREL counter; unsigned
\* comparison), a store of the network information is requested within the
\* same operation; when the counter is below the threshold none is.
C35_StoreRequestedAtThreshold ==
    [][/\ op'.name = "IncrementMleFrameCounter" =>
            (op'.store <=> ~ULess32(mMleFrameCounter', mStoredMleFrameCounter'))
       /\ op'.name = "MacFrameCounterUpdated" =>
            (op'.store <=> ~ULess32(mMacFrameCounters'.m154, mStoredMacFrameCounter'))
       /\ op'.name = "IncrementTrelMacFrameCounter" =>
            (op'.store <=> ~ULess32(mMacFrameCounters'.mTrel, mStoredMacFrameCounter'))
       /\ op'.name \in {"IncrementMleFrameCounter", "MacFrameCounterUpdated",
                         "IncrementTrelMacFrameCounter"} => UNCHANGED storedCounters]_vars

\* An increment brought the TREL counter exactly to a non-zero threshold and
\* the store was requested.
C35_Witness ==
    /\ op.name = "IncrementTrelMacFrameCounter"
    /\ op.store
    /\ mMacFrameCounters.mTrel = mStoredMacFrameCounter
    /\ mStoredMacFrameCounter # 0

\* An increment left the MLE counter below its threshold and no store was
\* requested.
C35_WitnessBelow ==
    /\ op.name = "IncrementMleFrameCounter"
    /\ ~op.store
    /\ mMleFrameCounter # 0

\* The SubMac reported a counter with the top bit set over a small threshold
\* and the store was requested.
C35_WitnessUnsigned ==
    /\ op.name = "MacFrameCounterUpdated"
    /\ op.store
    /\ mMacFrameCounters.m154 < 0
    /\ mStoredMacFrameCounter > 0

\* The literal build with the whole security policy replaced while the
\* rotation timer runs.
NextPolicySet ==
    \/ Start
    \/ Stop
    \/ SetCurrentKeySequenceCall
    \/ HandleKeyRotationTimer
    \/ SetSecurityPolicyFlagsCall

SpecPolicySet == Init /\ [][NextPolicySet]_vars

\* A valid policy was handed to SetSecurityPolicy.
PolicySet == op'.name = "SetSecurityPolicy" /\ op'.result # "fault"

C36_WitnessEqualPolicy ==
    /\ op.name = "SetSecurityPolicy"
    /\ op.result = "already"
    /\ emitted = {EventSecurityPolicyChanged}

----------------------------------------------------------------------------
\* The default platform crypto (crypto_platform.cpp over mbedTLS).

\* sizeof(mbedtls_sha256_context), the size every wrapper tests aContextSize
\* against; the model counts in units that keep one size below it.
Sha256ContextSize == 2

\* The context sizes callers pass.
ContextSizes == {Sha256ContextSize - 1, Sha256ContextSize, Sha256ContextSize + 1}

\* What an mbedTLS primitive returns: 0 on success, a negative error code.
MbedtlsResults == {0, -1}

\* The two tests the wrappers share.  VerifyOrExit(condition, action) runs
\* the action and leaves when the condition is false: the first leaves with
\* OT_ERROR_FAILED when the context is too small, the second is written with
\* the condition (primitive(...) != 0).
VerifiedPrimitive(aContextSize, ret) ==
    IF ~(aContextSize >= Sha256ContextSize) THEN "OT_ERROR_FAILED"
    ELSE IF ~(ret # 0) THEN "OT_ERROR_FAILED"
    ELSE "OT_ERROR_NONE"

\* The wrappers compiled only into MTD and FTD builds.
MtdOrFtdOnly(mtdOrFtd, aContextSize, ret) ==
    IF mtdOrFtd THEN VerifiedPrimitive(aContextSize, ret) ELSE "OT_ERROR_NOT_IMPLEMENTED"

\* ret: the result of mbedtls_aes_setkey_enc.
otPlatCryptoAesSetKey(aContextSize, ret) == VerifiedPrimitive(aContextSize, ret)

\* ret: the result of mbedtls_aes_crypt_ecb.
otPlatCryptoAesEncrypt(aContextSize, ret) == VerifiedPrimitive(aContextSize, ret)

\* ret: the result of mbedtls_md_hmac_starts.
otPlatCryptoHmacSha256Start(mtdOrFtd, aContextSize, ret) ==
    MtdOrFtdOnly(mtdOrFtd, aContextSize, ret)

\* ret: the result of mbedtls_md_hmac_update.
otPlatCryptoHmacSha256Update(mtdOrFtd, aContextSize, ret) ==
    MtdOrFtdOnly(mtdOrFtd, aContextSize, ret)

\* ret: the result of mbedtls_md_hmac_finish.
otPlatCryptoHmacSha256Finish(mtdOrFtd, aContextSize, ret) ==
    MtdOrFtdOnly(mtdOrFtd, aContextSize, ret)

\* ret: the result of mbedtls_sha256_starts_ret.
otPlatCryptoSha256Start(mtdOrFtd, aContextSize, ret) ==
    MtdOrFtdOnly(mtdOrFtd, aContextSize, ret)

\* ret: the result of mbedtls_sha256_update_ret.
otPlatCryptoSha256Update(mtdOrFtd, aContextSize, ret) ==
    MtdOrFtdOnly(mtdOrFtd, aContextSize, ret)

\* ret: the result of mbedtls_sha256_finish_ret.
otPlatCryptoSha256Finish(mtdOrFtd, aContextSize, ret) ==
    MtdOrFtdOnly(mtdOrFtd, aContextSize, ret)

\* A call of a wrapper leaves the Key Manager alone; the call and its result
\* are recorded.
CryptoCalled(name, mtdOrFtd, aContextSize, ret, result) ==
    /\ op' = [name |-> name,
              arg |-> [mtdOrFtd |-> mtdOrFtd, aContextSize |-> aContextSize, ret |-> ret],
              result |-> result]
    /\ emitted' = {}
    /\ UNCHANGED <<kmVars, firesSinceStep>>
    /\ Recorded

otPlatCryptoAesSetKeyCall ==
    \E mtdOrFtd \in BOOLEAN, aContextSize \in ContextSizes, ret \in MbedtlsResults :
        CryptoCalled("otPlatCryptoAesSetKey", mtdOrFtd, aContextSize, ret,
                     otPlatCryptoAesSetKey(aContextSize, ret))

otPlatCryptoAesEncryptCall ==
    \E mtdOrFtd \in BOOLEAN, aContextSize \in ContextSizes, ret \in MbedtlsResults :
        CryptoCalled("otPlatCryptoAesEncrypt", mtdOrFtd, aContextSize, ret,
                     otPlatCryptoAesEncrypt(aContextSize, ret))

otPlatCryptoHmacSha256StartCall ==
    \E mtdOrFtd \in BOOLEAN, aContextSize \in ContextSizes, ret \in MbedtlsResults :
        CryptoCalled("otPlatCryptoHmacSha256Start", mtdOrFtd, aContextSize, ret,
                     otPlatCryptoHmacSha256Start(mtdOrFtd, aContextSize, ret))

otPlatCryptoHmacSha256UpdateCall ==
    \E mtdOrFtd \in BOOLEAN, aContextSize \in ContextSizes, ret \in MbedtlsResults :
        CryptoCalled("otPlatCryptoHmacSha256Update", mtdOrFtd, aContextSize, ret,
                     otPlatCryptoHmacSha256Update(mtdOrFtd, aContextSize, ret))

otPlatCryptoHmacSha256FinishCall ==
    \E mtdOrFtd \in BOOLEAN, aContextSize \in ContextSizes, ret \in MbedtlsResults :
        CryptoCalled("otPlatCryptoHmacSha256Finish", mtdOrFtd, aContextSize, ret,
                     otPlatCryptoHmacSha256Finish(mtdOrFtd, aContextSize, ret))

otPlatCryptoSha256StartCall ==
    \E mtdOrFtd \in BOOLEAN, aContextSize \in ContextSizes, ret \in MbedtlsResults :
        CryptoCalled("otPlatCryptoSha256Start", mtdOrFtd, aContextSize, ret,
                     otPlatCryptoSha256Start(mtdOrFtd, aContextSize, ret))

otPlatCryptoSha256UpdateCall ==
    \E mtdOrFtd \in BOOLEAN, aContextSize \in ContextSizes, ret \in MbedtlsResults :
        CryptoCalled("otPlatCryptoSha256Update", mtdOrFtd, aContextSize, ret,
                     otPlatCryptoSha256Update(mtdOrFtd, aContextSize, ret))

otPlatCryptoSha256FinishCall ==
    \E mtdOrFtd \in BOOLEAN, aContextSize \in ContextSizes, ret \in MbedtlsResults :
        CryptoCalled("otPlatCryptoSha256Finish", mtdOrFtd, aContextSize, ret,
                     otPlatCryptoSha256Finish(mtdOrFtd, aContextSize, ret))

\* The default platform crypto called with every context size and every
\* outcome of the mbedTLS primitive.
NextCrypto ==
    \/ otPlatCryptoAesSetKeyCall
    \/ otPlatCryptoAesEncryptCall
    \/ otPlatCryptoHmacSha256StartCall
    \/ otPlatCryptoHmacSha256UpdateCall
    \/ otPlatCryptoHmacSha256FinishCall
    \/ otPlatCryptoSha256StartCall
    \/ otPlatCryptoSha256UpdateCall
    \/ otPlatCryptoSha256FinishCall

SpecCrypto == Init /\ [][NextCrypto]_vars

\* The AES wrappers are compiled into every build.
AesWrappers == {"otPlatCryptoAesSetKey", "otPlatCryptoAesEncrypt"}

\* The HMAC-SHA256 and SHA-256 wrappers do their work in MTD and FTD builds.
HashWrappers ==
    {"otPlatCryptoHmacSha256Start", "otPlatCryptoHmacSha256Update",
     "otPlatCryptoHmacSha256Finish", "otPlatCryptoSha256Start",
     "otPlatCryptoSha256Update", "otPlatCryptoSha256Finish"}

\* The last operation was a wrapper doing its work.
WrapperCalled ==
    \/ op.name \in AesWrappers
    \/ op.name \in HashWrappers /\ op.arg.mtdOrFtd

\* C37: otPlatCryptoHmacSha256Start/Update/Finish, otPlatCryptoAesSetKey/
\* Encrypt and otPlatCryptoSha256Start/Update/Finish return OT_ERROR_NONE
\* exactly when the context size is sufficient and the underlying primitive
\* returns 0, and OT_ERROR_FAILED when the primitive fails.
C37_ResultsFaithful ==
    WrapperCalled =>
        /\ op.result = "OT_ERROR_NONE"
              <=> (op.arg.aContextSize >= Sha256ContextSize /\ op.arg.ret = 0)
        /\ op.arg.ret # 0 => op.result = "OT_ERROR_FAILED"

\* What the wrappers return instead: OT_ERROR_NONE exactly when the context
\* is large enough and the primitive FAILED.
C37_ResultsInverted ==
    WrapperCalled =>
        (op.result = "OT_ERROR_NONE"
            <=> (op.arg.aContextSize >= Sha256ContextSize /\ op.arg.ret # 0))

----------------------------------------------------------------------------
\* The co-processor RPC command dispatch (rpc.cpp).

\* The command names of the model: the built-in of the radio build, a name
\* a user or platform command carries, and a name no table holds.
CommandNames == {"help-crpc", "user", "none"}

\* The argument lists callers pass: empty, a command, a command with an
\* argument.
ArgLists == {<<>>} \cup {<<c>> : c \in CommandNames} \cup {<<c, "arg">> : c \in CommandNames}

\* RPC::sCommands (radio build).
sCommands == <<"help-crpc">>

\* The tables SetUserCommands installs (radio build).
UserCommandTables == {<<>>, <<"user">>, <<"user", "help-crpc">>}

\* The tables Initialize caches from the platform's help-crpc (host build).
CachedCommandTables == {<<>>, <<"user">>, <<"help-crpc", "user">>}

\* What otPlatCRPCProcess returns; the weak default returns
\* kErrorInvalidCommand.
PlatformResults == {"kErrorNone", "kErrorInvalidArgs", "kErrorInvalidCommand"}

\* The table holds the name.
Holds(aCommands, name) == \E i \in 1 .. Len(aCommands) : aCommands[i] = name

\* RPC::HandleCommand: error, and whether a command handler was called.
HandleCommand(aArgs, aCommands) ==
    IF ~(Len(aArgs) # 0)
    THEN [error |-> "kErrorInvalidCommand", called |-> FALSE]
    ELSE IF Holds(aCommands, aArgs[1])
         THEN [error |-> "kErrorNone", called |-> TRUE]
         ELSE [error |-> "kErrorInvalidCommand", called |-> FALSE]

\* The message ProcessCmd writes at its exit label.
UnsupportedWritten(error, aArgs) == error = "kErrorInvalidCommand" /\ Len(aArgs) > 1

\* RPC::ProcessCmd.  radio: OPENTHREAD_RADIO.  The result holds the error,
\* the handlers called and whether "feature ... is not supported" was
\* written.  In the radio build the error the built-in loop has set is
\* assigned again from HandleCommand on the user commands.
ProcessCmd(radio, aArgs, userCommands, cachedCommands, platformResult) ==
    IF ~(Len(aArgs) > 0)
    THEN [error |-> "kErrorInvalidCommand", called |-> {},
          unsupported |-> UnsupportedWritten("kErrorInvalidCommand", aArgs)]
    ELSE IF radio
    THEN LET builtIn  == Holds(sCommands, aArgs[1])
             error0   == IF builtIn THEN "kErrorNone" ELSE "kErrorInvalidCommand"
             user     == HandleCommand(aArgs, userCommands)
             error    == user.error
         IN [error |-> error,
             called |-> (IF builtIn THEN {"builtIn"} ELSE {})
                           \cup (IF user.called THEN {"user"} ELSE {}),
             unsupported |-> UnsupportedWritten(error, aArgs)]
    ELSE IF Holds(cachedCommands, aArgs[1])
         THEN [error |-> platformResult, called |-> {"platform"},
               unsupported |-> UnsupportedWritten(platformResult, aArgs)]
         ELSE [error |-> "kErrorInvalidCommand", called |-> {},
               unsupported |-> UnsupportedWritten("kErrorInvalidCommand", aArgs)]

\* otCRPCProcessCmd: RPC::GetRPC().ProcessCmd(...).  The Key Manager is left
\* alone; the call and its result are recorded.
otCRPCProcessCmd ==
    /\ \E radio \in BOOLEAN, aArgs \in ArgLists, userCommands \in UserCommandTables,
          cachedCommands \in CachedCommandTables, platformResult \in PlatformResults :
          op' = [name |-> "otCRPCProcessCmd",
                 arg |-> [radio |-> radio, aArgs |-> aArgs,
                          commands |-> IF radio THEN userCommands ELSE cachedCommands],
                 result |-> ProcessCmd(radio, aArgs, userCommands, cachedCommands,
                                       platformResult)]
    /\ emitted' = {}
    /\ UNCHANGED <<kmVars, firesSinceStep>>
    /\ Recorded

\* Both builds of the command dispatch under every table and argument list.
NextRpc ==
    \/ otCRPCProcessCmd

SpecRpc == Init /\ [][NextRpc]_vars

\* The command the last call named is in a table of its build.
CommandFound ==
    /\ Len(op.arg.aArgs) > 0
    /\ \/ op.arg.radio /\ Holds(sCommands, op.arg.aArgs[1])
       \/ Holds(op.arg.commands, op.arg.aArgs[1])

\* C38: RPC::ProcessCmd / otCRPCProcessCmd returns OT_ERROR_NONE when the
\* named command is found and processed (a built-in or user handler was
\* called; in the host build the platform's own result is handed on), and
\* OT_ERROR_NOT_IMPLEMENTED when the command is not supported: it is in no
\* built-in, cached or user table, or the argument list is empty.
C38_ProcessCmdResultCodes ==
    op.name = "otCRPCProcessCmd" =>
        /\ (/\ CommandFound
            /\ op.result.called \cap {"builtIn", "user"} # {})
              => op.result.error = "kErrorNone"
        /\ ~CommandFound => op.result.error = "kErrorNotImplemented"

\* The radio build ran the built-in help-crpc and answered
\* kErrorInvalidCommand.
C38_BuiltInRunAnsweredInvalid ==
    /\ op.name = "otCRPCProcessCmd"
    /\ op.arg.radio
    /\ "builtIn" \in op.result.called
    /\ op.result.error = "kErrorInvalidCommand"

\* What the dispatch answers: kErrorInvalidCommand whenever the named command
\* is in no table or the argument list is empty, never
\* OT_ERROR_NOT_IMPLEMENTED.
C38_UnknownAnsweredInvalid ==
    op.name = "otCRPCProcessCmd" =>
        /\ ~CommandFound => op.result.error = "kErrorInvalidCommand"
        /\ op.result.error # "kErrorNotImplemented"

====
